---- MODULE Spec2Model ----
(***************************************************************************)
(* Three-layer trading pipeline of nofx: layers.Orchestrator and the       *)
(* components it sequences (DataProcessor, RiskCalculator, DecisionMaker,  *)
(* ParameterCalculator, RiskValidator, OrderSender, OrderExecutor).        *)
(*                                                                         *)
(* Numbers.  The Go code computes in float64.  The model keeps every       *)
(* quantity exact in integers with a fixed unit per field:                 *)
(*   money (balances, PnL, position USD)        USD                        *)
(*   prices of the input, EMA, ATR              USD                        *)
(*   stop-loss / take-profit prices             1/100 USD    (PriceScale)  *)
(*   MACD, MACD signal                          1/100000                   *)
(*   confidence, data quality                   1/10000  (7000 = 0.7)      *)
(*   percentages of the configuration           percent                    *)
(*   time                                       minutes                    *)
(* Quotients that are only compared are compared by cross-multiplication.  *)
(***************************************************************************)
EXTENDS Integers, Sequences, FiniteSets, TLC

(***************************************************************************)
(* Bounds of the model                                                     *)
(***************************************************************************)
MaxCycles == 2
MaxLossStreak == 4
MaxTime == 62

(***************************************************************************)
(* Program constants                                                       *)
(***************************************************************************)
ZeroTime == -1
HourMinutes == 60
MaxDuration == 153722867
PriceScale == 100

(***************************************************************************)
(* Configuration (layers.LayerConfig), fixed at construction.              *)
(* TestConfig is getTestConfig() of orchestrator_test.go; the others vary  *)
(* the breaker, the rate limiter and the execution mode.                   *)
(***************************************************************************)
TestConfig ==
  [ MinDataQuality            |-> 8000,
    MaxAccountRiskPercent     |-> 2,
    MaxSingleTradeRiskPercent |-> 1,
    DefaultLeverage           |-> 3,
    MaxLeverage               |-> 5,
    CircuitBreakerEnabled     |-> FALSE,
    MaxDailyLossPercent       |-> 5,
    MaxConsecutiveLosses      |-> 3,
    MinConfidence             |-> 7500,
    MaxDecisionsPerHour       |-> 100,
    CooldownMinutes           |-> 0,
    EnablePositionSizing      |-> TRUE,
    PositionSizingMethod      |-> "fixed",
    DryRun                    |-> TRUE ]

LiveConfig ==
  [ TestConfig EXCEPT !.CircuitBreakerEnabled = TRUE,
                      !.MaxDecisionsPerHour   = 2,
                      !.CooldownMinutes       = 30,
                      !.DryRun                = FALSE ]

LiveFastConfig ==
  [ TestConfig EXCEPT !.CircuitBreakerEnabled = TRUE,
                      !.MaxDecisionsPerHour   = 2,
                      !.PositionSizingMethod  = "kelly",
                      !.DryRun                = FALSE ]

\* The test configuration with a minConfidence below the 0.7 floor
LowConfidenceConfig == [ TestConfig EXCEPT !.MinConfidence = 6000 ]

\* The dry-run test configuration with a cooldown between decisions
DryCooldownConfig == [ TestConfig EXCEPT !.CooldownMinutes = 30 ]

Configs == { TestConfig, LiveConfig, LiveFastConfig }

VARIABLES
  config,                \* Orchestrator.config
  totalExecutions,       \* Orchestrator statistics
  successfulTrades,
  failedTrades,
  rejectedByRisk,
  totalBalance,          \* RiskCalculator account fields
  availableBalance,
  usedMargin,
  dailyPnL,              \* RiskCalculator statistics
  consecutiveLosses,
  circuitBreakerActive,
  lastDecisionTime,      \* DecisionMaker rate limiter
  decisionsThisHour,
  totalValidations,      \* RiskValidator statistics
  passedValidations,
  failedValidations,
  now,                   \* wall clock read by time.Now()
  pc,                    \* position of ExecuteTradingCycle
  rawMarketData,         \* argument of the running cycle
  cleanedData,           \* locals of the running cycle
  aiDecision,
  riskMetrics,
  executionPlan,
  orderResult,
  result,                \* TradingCycleResult of the running / last cycle
  stagesRun,             \* stages the running / last cycle has executed
  oracleCalls,           \* mcpClient.SendMessage calls of the last operation
  orderCalls,            \* order-changing Trader calls of the last operation
  lossesSinceWin,        \* history: losses recorded since the last win or reset
  inFlight,              \* per calling thread: its position inside a RiskCalculator mutator
  passLog,               \* history: times of the latest calls that passed checkRateLimit,
                         \* kept where the limiter is observed (MakeDecisionObserved)
  ruleExecutor           \* foundation.RuleExecutor: its fields

statsVars == << totalExecutions, successfulTrades, failedTrades, rejectedByRisk >>
riskVars == << totalBalance, availableBalance, usedMargin, dailyPnL,
               consecutiveLosses, circuitBreakerActive, lossesSinceWin >>
rateVars == << lastDecisionTime, decisionsThisHour >>
validatorVars == << totalValidations, passedValidations, failedValidations >>
cycleVars == << pc, rawMarketData, cleanedData, aiDecision, riskMetrics,
                executionPlan, orderResult, result, stagesRun >>
\* state of callers and components outside the trading cycle
otherVars == << inFlight, passLog, ruleExecutor >>
vars == << config, statsVars, riskVars, rateVars, validatorVars, now,
           cycleVars, oracleCalls, orderCalls, otherVars >>

\* The threads that call the mutators, and a thread that is in no call
Threads == { 1, 2 }
IdleFrame == [ pc |-> "idle", tmp |-> 0 ]

NoValue == [ nil |-> TRUE ]

(***************************************************************************)
(* Raw market snapshots (market.Data) handed to the cycle.  NilData is a   *)
(* nil pointer.  The intraday series are kept as the number of mid prices, *)
(* the RSI14 samples and the MACD samples; LongerTermContext may be nil.   *)
(***************************************************************************)
NormalData ==
  [ nil |-> FALSE, Symbol |-> "BTCUSDT", CurrentPrice |-> 45000,
    PriceChange1h |-> 2, CurrentEMA20 |-> 44800, CurrentMACD |-> 2340,
    CurrentRSI7 |-> 65, MidPricesLen |-> 4, RSI14Values |-> << 58, 59, 60, 62 >>,
    MACDValues |-> << 1000, 1500, 2000, 2300 >>,
    LongerTermContext |-> [ nil |-> FALSE, EMA50 |-> 44200, ATR14 |-> 250,
                            CurrentVolume |-> 5000000, AverageVolume |-> 4000000 ] ]

OversoldData ==
  [ NormalData EXCEPT !.CurrentRSI7 = 22, !.RSI14Values = << 35, 30, 28 >>,
                      !.CurrentMACD = -1800,
                      !.MACDValues = << -900, -900, -900, -900, -900, -900,
                                        -1800, -1800, -1800 >>,
                      !.MidPricesLen = 12 ]

VolatileData ==
  [ NormalData EXCEPT !.LongerTermContext.ATR14 = 3000, !.CurrentRSI7 = 80,
                      !.RSI14Values = << >> ]

BadPriceData ==
  [ NormalData EXCEPT !.CurrentPrice = 0, !.CurrentEMA20 = 0,
                      !.LongerTermContext = [ nil |-> TRUE, EMA50 |-> 0, ATR14 |-> 0,
                                              CurrentVolume |-> 0, AverageVolume |-> 0 ] ]

NoSymbolData == [ NormalData EXCEPT !.Symbol = "" ]

\* A priced snapshot whose quality is 0.7: no EMA20 and fewer than 10 mid prices
NoEMAData == [ NormalData EXCEPT !.CurrentEMA20 = 0 ]

NilData == [ NormalData EXCEPT !.nil = TRUE ]

RawInputs == { NilData, NormalData, OversoldData, VolatileData, BadPriceData,
               NoSymbolData }

(***************************************************************************)
(* Arithmetic helpers                                                      *)
(***************************************************************************)
Max(a, b) == IF a >= b THEN a ELSE b
Abs(a) == IF a >= 0 THEN a ELSE -a

RECURSIVE SumSeq(_)
SumSeq(s) == IF s = << >> THEN 0 ELSE Head(s) + SumSeq(Tail(s))

(***************************************************************************)
(* DataProcessor                                                           *)
(***************************************************************************)
\* (current - average) / average * 100, zero when the average is not positive
calculateVolumeChange(data) ==
  IF ~data.LongerTermContext.nil /\ data.LongerTermContext.AverageVolume > 0
  THEN ((data.LongerTermContext.CurrentVolume - data.LongerTermContext.AverageVolume) * 100)
         \div data.LongerTermContext.AverageVolume
  ELSE 0

\* mean of the last nine MACD samples, else 0.9 * CurrentMACD
calculateMACDSignal(data) ==
  IF Len(data.MACDValues) >= 9
  THEN SumSeq(SubSeq(data.MACDValues, Len(data.MACDValues) - 8, Len(data.MACDValues))) \div 9
  ELSE (data.CurrentMACD * 9) \div 10

\* last RSI14 sample, else RSI7
calculateRSI14(data) ==
  IF Len(data.RSI14Values) > 0
  THEN data.RSI14Values[Len(data.RSI14Values)]
  ELSE data.CurrentRSI7

assessDataQuality(data) ==
  LET q0 == 10000
      q1 == IF data.CurrentPrice <= 0 THEN q0 - 5000 ELSE q0
      q2 == IF data.CurrentEMA20 <= 0 THEN q1 - 1000 ELSE q1
      q3 == IF data.CurrentRSI7 <= 0 \/ data.CurrentRSI7 > 100 THEN q2 - 1000 ELSE q2
      q4 == IF data.MidPricesLen < 10 THEN q3 - 2000 ELSE q3
  IN  IF q4 < 0 THEN 0 ELSE q4

\* ProcessMarketData on a non-nil input; the error return for nil is
\* taken by the caller (StageData)
ProcessMarketData(cfg, rawData) ==
  LET quality == assessDataQuality(rawData)
  IN  [ nil           |-> FALSE,
        Symbol        |-> rawData.Symbol,
        CurrentPrice  |-> rawData.CurrentPrice,
        PriceChange1h |-> rawData.PriceChange1h,
        EMA20         |-> rawData.CurrentEMA20,
        EMA50         |-> IF rawData.LongerTermContext.nil THEN 0
                          ELSE rawData.LongerTermContext.EMA50,
        MACD          |-> rawData.CurrentMACD,
        MACDSignal    |-> calculateMACDSignal(rawData),
        RSI7          |-> rawData.CurrentRSI7,
        RSI14         |-> calculateRSI14(rawData),
        ATR           |-> IF rawData.LongerTermContext.nil THEN 0
                          ELSE rawData.LongerTermContext.ATR14,
        VolumeChange  |-> calculateVolumeChange(rawData),
        DataQuality   |-> quality,
        IsValid       |-> quality >= cfg.MinDataQuality ]

(***************************************************************************)
(* RiskCalculator                                                          *)
(***************************************************************************)
\* Account snapshots returned by Trader.GetBalance / passed to UpdateAccountInfo
Balances ==
  { [ total |-> 10000, available |-> 8000, used_margin |-> 2000 ],
    [ total |-> 10000, available |-> 50,   used_margin |-> 9950 ],
    [ total |-> 0,     available |-> 0,    used_margin |-> 0 ] }

\* Arguments of UpdateDailyPnL
PnLValues == { -600, -500, 100 }

\* The receiver's fields, as read by its methods
RC ==
  [ totalBalance         |-> totalBalance,
    availableBalance     |-> availableBalance,
    usedMargin           |-> usedMargin,
    dailyPnL             |-> dailyPnL,
    consecutiveLosses    |-> consecutiveLosses,
    circuitBreakerActive |-> circuitBreakerActive ]

\* A daily-loss test that also fires at the limit itself
DailyLossReached(cfg, balance, pnl) ==
  pnl * 100 <= -(balance * cfg.MaxDailyLossPercent)

\* rc.dailyPnL < -(rc.totalBalance * MaxDailyLossPercent / 100)
DailyLossExceeded(cfg, balance, pnl) ==
  pnl * 100 < -(balance * cfg.MaxDailyLossPercent)

\* A breaker flag that follows the daily loss in both directions
BreakerFollowsDailyPnL(cfg, active, balance, pnl) ==
  cfg.CircuitBreakerEnabled /\ DailyLossExceeded(cfg, balance, pnl)

\* circuitBreakerActive after UpdateDailyPnL(pnl)
BreakerAfterDailyPnL(cfg, active, balance, pnl) ==
  IF cfg.CircuitBreakerEnabled /\ DailyLossExceeded(cfg, balance, pnl)
  THEN TRUE ELSE active

calculateRecommendedLeverage(cfg, data) ==
  LET base0 == cfg.DefaultLeverage
      base1 == IF data.ATR > 0 /\ data.CurrentPrice > 0
               THEN IF data.ATR * 100 > 5 * data.CurrentPrice THEN Max(1, base0 - 2)
                    ELSE IF data.ATR * 100 > 3 * data.CurrentPrice THEN Max(1, base0 - 1)
                    ELSE base0
               ELSE base0
      base2 == IF data.RSI14 > 70 \/ data.RSI14 < 30 THEN Max(1, base1 - 1) ELSE base1
  IN  IF base2 > cfg.MaxLeverage THEN cfg.MaxLeverage ELSE base2

calculateLongStopLoss(data) ==
  IF data.ATR > 0 THEN (data.CurrentPrice - data.ATR * 2) * PriceScale
  ELSE (data.CurrentPrice * PriceScale * 98) \div 100

calculateLongTakeProfit(data) ==
  LET risk == data.CurrentPrice * PriceScale - calculateLongStopLoss(data)
  IN  data.CurrentPrice * PriceScale + risk * 2

calculateShortStopLoss(data) ==
  IF data.ATR > 0 THEN (data.CurrentPrice + data.ATR * 2) * PriceScale
  ELSE (data.CurrentPrice * PriceScale * 102) \div 100

calculateShortTakeProfit(data) ==
  LET risk == calculateShortStopLoss(data) - data.CurrentPrice * PriceScale
  IN  data.CurrentPrice * PriceScale - risk * 2

\* metrics.MarginUsagePercent > k, with
\* MarginUsagePercent = (usedMargin + MaxPositionSizeUSD / leverage) / totalBalance * 100
MarginUsageAbove(rc, m, k) ==
  (rc.usedMargin * m.RecommendedLeverage + m.MaxPositionSizeUSD) * 100
     > k * m.RecommendedLeverage * rc.totalBalance

\* metrics.MaxLossUSD / totalBalance * 100 > k, with
\* MaxLossUSD = |price - stop| / price * MaxPositionSizeUSD when stop > 0, else 0;
\* a zero price makes the float quotient +Inf.  Both sides of the comparison
\* are divided by 100.
LossPercentAbove(rc, m, data, k) ==
  IF m.StopLossPrice <= 0 THEN FALSE
  ELSE IF data.CurrentPrice > 0
       THEN Abs(data.CurrentPrice * PriceScale - m.StopLossPrice) * m.MaxPositionSizeUSD
              > k * data.CurrentPrice * (PriceScale \div 100) * rc.totalBalance
       ELSE m.MaxPositionSizeUSD > 0

assessRiskLevel(rc, m, data) ==
  LET s1 == IF MarginUsageAbove(rc, m, 80) THEN 3
            ELSE IF MarginUsageAbove(rc, m, 60) THEN 2
            ELSE IF MarginUsageAbove(rc, m, 40) THEN 1 ELSE 0
      s2 == IF m.RecommendedLeverage >= 5 THEN 2
            ELSE IF m.RecommendedLeverage >= 3 THEN 1 ELSE 0
      s3 == IF rc.totalBalance > 0
            THEN IF LossPercentAbove(rc, m, data, 2) THEN 2
                 ELSE IF LossPercentAbove(rc, m, data, 1) THEN 1 ELSE 0
            ELSE 0
      s4 == IF rc.consecutiveLosses >= 2 THEN 1 ELSE 0
      score == s1 + s2 + s3 + s4
  IN  IF score >= 5 THEN "extreme"
      ELSE IF score >= 3 THEN "high"
      ELSE IF score >= 1 THEN "medium"
      ELSE "low"

\* canTrade: << can trade, reason >>; RequiredMargin = MaxPositionSizeUSD / leverage
canTrade(rc, m) ==
  IF rc.circuitBreakerActive THEN << FALSE, "breaker" >>
  ELSE IF rc.availableBalance * m.RecommendedLeverage < m.MaxPositionSizeUSD
       THEN << FALSE, "insufficient available balance" >>
  ELSE IF MarginUsageAbove(rc, m, 90) THEN << FALSE, "margin usage too high" >>
  ELSE IF m.RiskLevel = "extreme" THEN << FALSE, "risk level too high" >>
  ELSE IF m.StopLossPrice <= 0 THEN << FALSE, "invalid stop loss" >>
  ELSE << TRUE, "risk check passed" >>

ZeroMetrics(data) ==
  [ nil |-> FALSE, Symbol |-> data.Symbol, MaxPositionSizeUSD |-> 0,
    RecommendedLeverage |-> 0, StopLossPrice |-> 0, TakeProfitPrice |-> 0,
    RiskLevel |-> "", CanTrade |-> FALSE, RiskReason |-> "" ]

\* CalculateRiskMetrics past the breaker pre-check: the balance check and
\* the sizing
sizeRiskMetrics(cfg, rc, direction, data) ==
  IF rc.totalBalance <= 0 \/ rc.availableBalance <= 0
  THEN [ ZeroMetrics(data) EXCEPT !.RiskReason = "insufficient balance",
                                  !.RiskLevel = "extreme" ]
  ELSE
    LET maxBySingle  == (rc.totalBalance * cfg.MaxSingleTradeRiskPercent) \div 2
        maxByAccount == (rc.totalBalance * cfg.MaxAccountRiskPercent) \div 100
        m1 == [ ZeroMetrics(data) EXCEPT
                  !.MaxPositionSizeUSD = IF maxBySingle > maxByAccount THEN maxByAccount
                                         ELSE maxBySingle,
                  !.RecommendedLeverage = calculateRecommendedLeverage(cfg, data),
                  !.StopLossPrice = IF direction = "long" THEN calculateLongStopLoss(data)
                                    ELSE IF direction = "short"
                                         THEN calculateShortStopLoss(data) ELSE 0,
                  !.TakeProfitPrice = IF direction = "long" THEN calculateLongTakeProfit(data)
                                      ELSE IF direction = "short"
                                           THEN calculateShortTakeProfit(data) ELSE 0 ]
        m2 == [ m1 EXCEPT !.RiskLevel = assessRiskLevel(rc, m1, data) ]
        ct == canTrade(rc, m2)
    IN  [ m2 EXCEPT !.CanTrade = ct[1], !.RiskReason = ct[2] ]

\* A risk calculation that never sees the breaker flag set
CalculateRiskMetricsBlindToBreaker(cfg, rc, direction, data) ==
  sizeRiskMetrics(cfg, [ rc EXCEPT !.circuitBreakerActive = FALSE ], direction, data)

\* CalculateRiskMetrics on non-nil market data
CalculateRiskMetrics(cfg, rc, direction, data) ==
  IF rc.circuitBreakerActive
  THEN [ ZeroMetrics(data) EXCEPT !.RiskReason = "breaker", !.RiskLevel = "extreme" ]
  ELSE sizeRiskMetrics(cfg, rc, direction, data)

(***************************************************************************)
(* Oracle (mcp.Client.SendMessage) answers.  An answer is an error, a JSON *)
(* body carrying a tag (and, for the final decision, a confidence), or a   *)
(* body that is not JSON (text, possibly empty).                           *)
(***************************************************************************)
OracleError == [ kind |-> "error", tag |-> "", confidence |-> 0, empty |-> TRUE ]
OracleJson(tag, confidence) ==
  [ kind |-> "json", tag |-> tag, confidence |-> confidence, empty |-> FALSE ]
OracleText(empty) == [ kind |-> "text", tag |-> "", confidence |-> 0, empty |-> empty ]

MarketConditions == { "trending", "ranging", "volatile", "consolidate", "breakout" }
TradingOpportunities == { "long_entry", "short_entry", "long_exit", "short_exit",
                          "scalp", "none" }
Directions == { "long", "short", "wait" }

isValidMarketCondition(condition) == condition \in MarketConditions
isValidOpportunity(opp) == opp \in TradingOpportunities

\* contains(text, substr) of market_analyzer.go: every substr searched for is a
\* non-empty literal, so the result is whether the text is non-empty
contains(textEmpty) == ~textEmpty

(***************************************************************************)
(* MarketAnalyzer                                                          *)
(***************************************************************************)
parseMarketConditionFromText(textEmpty) ==
  IF contains(textEmpty) THEN [ condition |-> "trending", reason |-> "parsed from text" ]
  ELSE [ condition |-> "ranging", reason |-> "unparsable, default ranging" ]

\* (condition, reason, err) of AnalyzeMarketCondition for one oracle answer
AnalyzeMarketCondition(resp) ==
  IF resp.kind = "error"
  THEN [ condition |-> "", reason |-> "", err |-> TRUE ]
  ELSE IF resp.kind = "text"
  THEN [ condition |-> parseMarketConditionFromText(resp.empty).condition,
         reason    |-> parseMarketConditionFromText(resp.empty).reason,
         err       |-> FALSE ]
  ELSE IF ~isValidMarketCondition(resp.tag)
  THEN [ condition |-> "ranging", reason |-> "invalid tag, default ranging", err |-> FALSE ]
  ELSE [ condition |-> resp.tag, reason |-> "oracle", err |-> FALSE ]

AnalyzeMarketConditionWithTechnicals(data) ==
  LET spreadNum == (data.EMA20 - data.EMA50) * 100   \* emaSpread = spreadNum / EMA50
      strong == data.EMA20 > 0 /\ data.EMA50 > 0
                /\ (spreadNum > 2 * data.EMA50 \/ spreadNum < -2 * data.EMA50)
      macdConfirm == (spreadNum > 0 /\ data.MACD > 0) \/ (spreadNum < 0 /\ data.MACD < 0)
  IN  IF strong /\ macdConfirm THEN "trending"
      ELSE IF data.CurrentPrice > data.EMA20 /\ data.CurrentPrice > data.EMA50
              /\ data.VolumeChange > 50 THEN "breakout"
      ELSE IF data.ATR > 0 /\ data.CurrentPrice > 0
              /\ data.ATR * 100 > 5 * data.CurrentPrice THEN "volatile"
      ELSE IF data.RSI14 > 40 /\ data.RSI14 < 60 /\ data.MACD > -10 /\ data.MACD < 10
           THEN "consolidate"
      ELSE "ranging"

(***************************************************************************)
(* OpportunityDetector                                                     *)
(***************************************************************************)
parseOpportunityFromText(textEmpty) ==
  IF contains(textEmpty) THEN "long_entry" ELSE "none"

DetectOpportunity(resp) ==
  IF resp.kind = "error" THEN [ opportunity |-> "none", err |-> TRUE ]
  ELSE IF resp.kind = "text"
  THEN [ opportunity |-> parseOpportunityFromText(resp.empty), err |-> FALSE ]
  ELSE IF ~isValidOpportunity(resp.tag) THEN [ opportunity |-> "none", err |-> FALSE ]
  ELSE [ opportunity |-> resp.tag, err |-> FALSE ]

detectTrendingOpportunity(data) ==
  IF data.EMA20 > data.EMA50
     /\ ( (data.CurrentPrice < data.EMA20 /\ data.RSI14 < 40)
          \/ (data.MACD > data.MACDSignal /\ data.MACD > 0)
          \/ (data.CurrentPrice > data.EMA20 /\ data.RSI14 > 50 /\ data.RSI14 < 70) )
  THEN "long_entry"
  ELSE IF data.EMA20 < data.EMA50
          /\ ( (data.CurrentPrice > data.EMA20 /\ data.RSI14 > 60)
               \/ (data.MACD < data.MACDSignal /\ data.MACD < 0)
               \/ (data.CurrentPrice < data.EMA20 /\ data.RSI14 < 50 /\ data.RSI14 > 30) )
  THEN "short_entry"
  ELSE "none"

detectBreakoutOpportunity(data) ==
  IF data.CurrentPrice > data.EMA20 /\ data.CurrentPrice > data.EMA50
     /\ data.VolumeChange > 50 /\ data.RSI14 > 55 THEN "long_entry"
  ELSE IF data.CurrentPrice < data.EMA20 /\ data.CurrentPrice < data.EMA50
          /\ data.VolumeChange > 50 /\ data.RSI14 < 45 THEN "short_entry"
  ELSE "none"

detectRangingOpportunity(data) ==
  IF data.RSI14 < 30 THEN "long_entry"
  ELSE IF data.RSI14 > 70 THEN "short_entry"
  ELSE IF data.CurrentPrice < data.EMA50 /\ data.RSI14 < 40 THEN "long_entry"
  ELSE IF data.CurrentPrice > data.EMA50 /\ data.RSI14 > 60 THEN "short_entry"
  ELSE "none"

detectVolatileOpportunity(data) ==
  IF data.RSI7 < 25 \/ data.RSI7 > 75 THEN "scalp" ELSE "none"

DetectOpportunityWithTechnicals(marketCondition, data) ==
  CASE marketCondition = "trending"    -> detectTrendingOpportunity(data)
    [] marketCondition = "breakout"    -> detectBreakoutOpportunity(data)
    [] marketCondition = "ranging"     -> detectRangingOpportunity(data)
    [] marketCondition = "consolidate" -> "none"
    [] marketCondition = "volatile"    -> detectVolatileOpportunity(data)
    [] OTHER                           -> "none"

(***************************************************************************)
(* DecisionMaker                                                           *)
(***************************************************************************)
\* now.Sub(last): time.Time{} lies centuries back and the Duration saturates
Since(t, last) == IF last = ZeroTime THEN MaxDuration ELSE t - last

\* An hourly reset that comes after half an hour without a decision
HourlyResetAfterHalfHour(dm, t) ==
  IF Since(t, dm.lastDecisionTime) * 2 > HourMinutes THEN 0 ELSE dm.decisionsThisHour

\* decisionsThisHour after the lazy hourly reset at the head of checkRateLimit
HourlyReset(dm, t) ==
  IF Since(t, dm.lastDecisionTime) > HourMinutes THEN 0 ELSE dm.decisionsThisHour

\* A rate limiter without the cooldown test
checkRateLimitNoCooldown(cfg, dm, t) ==
  [ ok |-> ~(HourlyReset(dm, t) >= cfg.MaxDecisionsPerHour),
    decisionsThisHour |-> HourlyReset(dm, t) ]

\* checkRateLimit at time t: whether a decision may be made, and the
\* decisionsThisHour it leaves behind
checkRateLimit(cfg, dm, t) ==
  [ ok |-> ~(HourlyReset(dm, t) >= cfg.MaxDecisionsPerHour)
           /\ ~(Since(t, dm.lastDecisionTime) < cfg.CooldownMinutes),
    decisionsThisHour |-> HourlyReset(dm, t) ]

\* An update that stamps the time and forgets the counter
updateRateLimitTimeOnly(dm, t) ==
  [ lastDecisionTime |-> t, decisionsThisHour |-> dm.decisionsThisHour ]

\* updateRateLimit at time t
updateRateLimit(dm, t) ==
  [ lastDecisionTime |-> t, decisionsThisHour |-> dm.decisionsThisHour + 1 ]

\* 0.75 plus 0.05 per confirmation, capped at 1.0.  In float64 the sums after
\* two, three and four additions lie just above 0.85, 0.9 and 0.95; the unit
\* in the last place stands for that excess.
calculateConfidence(data, isLong) ==
  LET k == (IF (isLong /\ data.RSI14 < 40) \/ (~isLong /\ data.RSI14 > 60) THEN 1 ELSE 0)
         + (IF (isLong /\ data.MACD > data.MACDSignal)
               \/ (~isLong /\ data.MACD < data.MACDSignal) THEN 1 ELSE 0)
         + (IF (isLong /\ data.CurrentPrice > data.EMA20)
               \/ (~isLong /\ data.CurrentPrice < data.EMA20) THEN 1 ELSE 0)
         + (IF data.VolumeChange > 30 THEN 1 ELSE 0)
      c == 7500 + 500 * k + (IF k >= 2 THEN 1 ELSE 0)
  IN  IF c > 10000 THEN 10000 ELSE c

makeRuleBasedDecision(opportunity, data) ==
  CASE opportunity = "long_entry" ->
         [ direction |-> "long", confidence |-> calculateConfidence(data, TRUE) ]
    [] opportunity = "short_entry" ->
         [ direction |-> "short", confidence |-> calculateConfidence(data, FALSE) ]
    [] opportunity = "scalp" ->
         IF data.RSI7 < 30 THEN [ direction |-> "long", confidence |-> 7500 ]
         ELSE IF data.RSI7 > 70 THEN [ direction |-> "short", confidence |-> 7500 ]
         ELSE [ direction |-> "wait", confidence |-> 7500 ]
    [] OTHER -> [ direction |-> "wait", confidence |-> 0 ]

parseDecisionFromText(textEmpty) ==
  [ direction |-> IF contains(textEmpty) THEN "long" ELSE "wait",
    confidence |-> 7500, err |-> FALSE ]

\* A final-decision parser that keeps the oracle's confidence as answered
callAIForDecisionUnclamped(resp) ==
  IF resp.kind = "error" THEN [ direction |-> "wait", confidence |-> 0, err |-> TRUE ]
  ELSE IF resp.kind = "text" THEN parseDecisionFromText(resp.empty)
  ELSE [ direction  |-> IF resp.tag \in Directions THEN resp.tag ELSE "wait",
         confidence |-> resp.confidence,
         err        |-> FALSE ]

callAIForDecision(resp) ==
  IF resp.kind = "error" THEN [ direction |-> "wait", confidence |-> 0, err |-> TRUE ]
  ELSE IF resp.kind = "text" THEN parseDecisionFromText(resp.empty)
  ELSE [ direction  |-> IF resp.tag \in Directions THEN resp.tag ELSE "wait",
         confidence |-> IF resp.confidence < 7000 THEN 7000
                        ELSE IF resp.confidence > 10000 THEN 10000
                        ELSE resp.confidence,
         err        |-> FALSE ]

\* The decision of a call that got past the rate limiter, for the oracle's
\* answers ra, rb, rc to the three prompts
DecideWithOracle(cfg, data, ra, rb, rc) ==
  LET a == AnalyzeMarketCondition(ra)
      marketCondition == IF a.err THEN AnalyzeMarketConditionWithTechnicals(data)
                         ELSE a.condition
      conditionReason == IF a.err THEN "technicals" ELSE a.reason
      b == DetectOpportunity(rb)
      opportunity == IF b.err THEN DetectOpportunityWithTechnicals(marketCondition, data)
                     ELSE b.opportunity
      c == callAIForDecision(rc)
      d == IF c.err THEN makeRuleBasedDecision(opportunity, data)
           ELSE [ direction |-> c.direction, confidence |-> c.confidence ]
  IN  [ nil             |-> FALSE,
        Symbol          |-> data.Symbol,
        MarketCondition |-> marketCondition,
        ConditionReason |-> conditionReason,
        Opportunity     |-> opportunity,
        Direction       |-> IF d.confidence < cfg.MinConfidence THEN "wait" ELSE d.direction,
        Confidence      |-> d.confidence ]

RateLimitedDecision(data) ==
  [ nil             |-> FALSE,
    Symbol          |-> data.Symbol,
    MarketCondition |-> "ranging",
    ConditionReason |-> "rate limit",
    Opportunity     |-> "none",
    Direction       |-> "wait",
    Confidence      |-> 0 ]

\* A MakeDecision that hands an oracle failure to its caller
MakeDecisionPropagating(cfg, dm, t, t2, data, ra, rb, rc) ==
  LET chk == checkRateLimit(cfg, dm, t)
      dm1 == [ dm EXCEPT !.decisionsThisHour = chk.decisionsThisHour ]
  IN  IF ~chk.ok
      THEN [ decision |-> RateLimitedDecision(data), dm |-> dm1, oracleCalls |-> 0,
             err |-> FALSE ]
      ELSE IF "error" \in { ra.kind, rb.kind, rc.kind }
      THEN [ decision |-> NoValue, dm |-> dm1, oracleCalls |-> 3, err |-> TRUE ]
      ELSE [ decision |-> DecideWithOracle(cfg, data, ra, rb, rc),
             dm |-> updateRateLimit(dm1, t2), oracleCalls |-> 3, err |-> FALSE ]

\* MakeDecision called at time t and returning at time t2 >= t: the decision,
\* the rate limiter's fields afterwards, the oracle calls made, and the
\* returned error (nil on both returns)
MakeDecision(cfg, dm, t, t2, data, ra, rb, rc) ==
  LET chk == checkRateLimit(cfg, dm, t)
      dm1 == [ dm EXCEPT !.decisionsThisHour = chk.decisionsThisHour ]
  IN  IF ~chk.ok
      THEN [ decision |-> RateLimitedDecision(data), dm |-> dm1, oracleCalls |-> 0,
             err |-> FALSE ]
      ELSE [ decision |-> DecideWithOracle(cfg, data, ra, rb, rc),
             dm |-> updateRateLimit(dm1, t2), oracleCalls |-> 3, err |-> FALSE ]

DM == [ lastDecisionTime |-> lastDecisionTime, decisionsThisHour |-> decisionsThisHour ]

(***************************************************************************)
(* ParameterCalculator.  Quantities are exact fractions [n, d] with d > 0. *)
(***************************************************************************)
Frac(n, d) == [ n |-> n, d |-> d ]
FracPositive(q) == q.n > 0

determineAction(decision) ==
  CASE decision.Direction = "long"  -> "open_long"
    [] decision.Direction = "short" -> "open_short"
    [] OTHER                        -> "wait"

\* adjustedPositionUSD of calculatePositionSize
calculatePositionUSD(cfg, decision, metrics, data) ==
  LET base == metrics.MaxPositionSizeUSD
      c    == decision.Confidence
      byConfidence ==
        IF c >= 7000 /\ c <= 10000 THEN Frac(base * (c - 4000), 6000)
        ELSE IF c < 7000 THEN Frac(base, 2)
        ELSE Frac(base, 1)
      kellyNum == IF 3 * c - 10000 < 0 THEN 0
                  ELSE IF 3 * c - 10000 > 5000 THEN 5000 ELSE 3 * c - 10000
  IN  IF ~cfg.EnablePositionSizing THEN byConfidence
      ELSE CASE cfg.PositionSizingMethod = "fixed" -> Frac(base, 2)
             [] cfg.PositionSizingMethod = "kelly" -> Frac(base * kellyNum, 5000)
             [] cfg.PositionSizingMethod = "volatility" ->
                  IF data.ATR > 0 /\ data.CurrentPrice > 0
                  THEN Frac(base * data.CurrentPrice, data.CurrentPrice + 10 * data.ATR)
                  ELSE byConfidence
             [] OTHER -> byConfidence

\* quantity = adjustedPositionUSD / price, zero when the price is not positive
calculateQuantity(usd, data) ==
  IF data.CurrentPrice > 0 THEN Frac(usd.n, usd.d * data.CurrentPrice) ELSE Frac(0, 1)

calculateLeverage(decision, metrics) ==
  LET l1 == IF decision.Confidence < 8000 THEN Max(1, metrics.RecommendedLeverage - 1)
            ELSE metrics.RecommendedLeverage
  IN  IF decision.MarketCondition = "volatile" THEN Max(1, l1 - 1) ELSE l1

calculateStopLoss(decision, metrics) ==
  IF decision.MarketCondition = "volatile"
  THEN IF decision.Direction = "long" THEN (metrics.StopLossPrice * 98) \div 100
       ELSE IF decision.Direction = "short" THEN (metrics.StopLossPrice * 102) \div 100
       ELSE metrics.StopLossPrice
  ELSE metrics.StopLossPrice

calculateTakeProfit(decision, metrics, data) ==
  IF decision.Confidence > 9000
  THEN IF decision.Direction = "long"
       THEN data.CurrentPrice * PriceScale
            + ((data.CurrentPrice * PriceScale - metrics.StopLossPrice) * 5) \div 2
       ELSE IF decision.Direction = "short"
       THEN data.CurrentPrice * PriceScale
            - ((metrics.StopLossPrice - data.CurrentPrice * PriceScale) * 5) \div 2
       ELSE metrics.TakeProfitPrice
  ELSE metrics.TakeProfitPrice

determinePriority(decision) ==
  IF decision.Confidence >= 9000 /\ decision.MarketCondition \in { "breakout", "trending" }
  THEN "high"
  ELSE IF decision.Confidence >= 7500 THEN "normal"
  ELSE "low"

CalculateParameters(cfg, decision, metrics, data) ==
  LET usd == calculatePositionUSD(cfg, decision, metrics, data)
  IN  [ action       |-> determineAction(decision),
        quantity     |-> calculateQuantity(usd, data),
        quantity_usd |-> usd,
        leverage     |-> calculateLeverage(decision, metrics),
        stop_loss    |-> calculateStopLoss(decision, metrics),
        take_profit  |-> calculateTakeProfit(decision, metrics, data),
        priority     |-> determinePriority(decision) ]

\* AdjustParametersForRisk: x 0.5 and x 0.8 on the exact fractions
AdjustParametersForRisk(params, riskLevel) ==
  CASE riskLevel = "extreme" -> [ params EXCEPT !.action = "wait" ]
    [] riskLevel = "high" ->
         [ params EXCEPT !.quantity = Frac(params.quantity.n, 2 * params.quantity.d),
                         !.quantity_usd = Frac(params.quantity_usd.n,
                                               2 * params.quantity_usd.d),
                         !.leverage = Max(1, params.leverage - 1) ]
    [] riskLevel = "medium" ->
         [ params EXCEPT !.quantity = Frac(4 * params.quantity.n, 5 * params.quantity.d),
                         !.quantity_usd = Frac(4 * params.quantity_usd.n,
                                               5 * params.quantity_usd.d) ]
    [] OTHER -> params

(***************************************************************************)
(* OrderSender.PrepareExecutionPlan                                        *)
(***************************************************************************)
\* t is the clock read by time.Now() for the plan's Timestamp
PrepareExecutionPlan(decision, params, riskCheckPassed, riskCheckReason, t) ==
  [ nil             |-> FALSE,
    Symbol          |-> decision.Symbol,
    Timestamp       |-> t,
    Action          |-> params.action,
    Quantity        |-> params.quantity,
    QuantityUSD     |-> params.quantity_usd,
    Leverage        |-> params.leverage,
    StopLoss        |-> params.stop_loss,
    TakeProfit      |-> params.take_profit,
    RiskCheckPassed |-> riskCheckPassed,
    RiskCheckReason |-> riskCheckReason,
    Priority        |-> params.priority ]

(***************************************************************************)
(* RiskValidator: six checks, the first failure wins.  Each check is       *)
(* << pass, reason >>.                                                     *)
(***************************************************************************)
OrderActions == { "open_long", "open_short", "close_long", "close_short" }

validateBasicParameters(plan) ==
  IF plan.nil THEN << FALSE, "plan is nil" >>
  ELSE IF plan.Symbol = "" THEN << FALSE, "symbol is empty" >>
  ELSE IF plan.Action \notin OrderActions THEN << FALSE, "invalid action" >>
  ELSE IF ~FracPositive(plan.Quantity) THEN << FALSE, "invalid quantity" >>
  ELSE IF ~FracPositive(plan.QuantityUSD) THEN << FALSE, "invalid quantity usd" >>
  ELSE IF plan.Leverage < 1 \/ plan.Leverage > 20 THEN << FALSE, "leverage out of range" >>
  ELSE << TRUE, "" >>

validateRiskMetrics(plan, metrics) ==
  IF metrics.nil THEN << FALSE, "risk metrics are nil" >>
  ELSE IF ~metrics.CanTrade THEN << FALSE, "risk metrics forbid trading" >>
  ELSE IF metrics.RiskLevel = "extreme" THEN << FALSE, "risk level extreme" >>
  ELSE IF plan.QuantityUSD.n * 10 > metrics.MaxPositionSizeUSD * 11 * plan.QuantityUSD.d
       THEN << FALSE, "position above recommendation" >>
  ELSE IF plan.Leverage > metrics.RecommendedLeverage + 1
       THEN << FALSE, "leverage above recommendation" >>
  ELSE << TRUE, "" >>

validateMarketData(data) ==
  IF data.nil THEN << FALSE, "market data is nil" >>
  ELSE IF ~data.IsValid THEN << FALSE, "market data quality not acceptable" >>
  ELSE IF data.DataQuality < 8000 THEN << FALSE, "data quality too low" >>
  ELSE IF data.CurrentPrice <= 0 THEN << FALSE, "current price invalid" >>
  ELSE IF data.PriceChange1h > 20 \/ data.PriceChange1h < -20
       THEN << FALSE, "abnormal price move" >>
  ELSE << TRUE, "" >>

validateDecisionConsistency(plan, decision) ==
  IF decision.nil THEN << FALSE, "decision is nil" >>
  ELSE IF plan.Action # determineAction(decision)
       THEN << FALSE, "action inconsistent with decision" >>
  ELSE IF decision.Confidence < 7000 THEN << FALSE, "confidence too low" >>
  ELSE IF decision.Opportunity = "none" /\ plan.Action # "wait"
       THEN << FALSE, "no opportunity but plan trades" >>
  ELSE << TRUE, "" >>

\* A check of the stop only, any target accepted
validateStopLossTakeProfitAnyTarget(plan, data) ==
  LET price == data.CurrentPrice * PriceScale
  IN  IF plan.Action = "open_long"
      THEN IF plan.StopLoss >= price THEN << FALSE, "long stop loss invalid" >>
           ELSE IF (price - plan.StopLoss) * 100 > 10 * price
                THEN << FALSE, "stop distance too large" >>
           ELSE IF (price - plan.StopLoss) * 200 < price
                THEN << FALSE, "stop distance too small" >>
           ELSE << TRUE, "" >>
      ELSE IF plan.Action = "open_short"
      THEN IF plan.StopLoss <= price THEN << FALSE, "short stop loss invalid" >>
           ELSE IF (plan.StopLoss - price) * 100 > 10 * price
                THEN << FALSE, "stop distance too large" >>
           ELSE IF (plan.StopLoss - price) * 200 < price
                THEN << FALSE, "stop distance too small" >>
           ELSE << TRUE, "" >>
      ELSE << TRUE, "" >>

\* stop distance in percent of the price, compared by cross-multiplication
validateStopLossTakeProfit(plan, data) ==
  LET price == data.CurrentPrice * PriceScale
  IN  IF plan.Action = "open_long"
      THEN IF plan.StopLoss >= price THEN << FALSE, "long stop loss invalid" >>
           ELSE IF plan.TakeProfit > 0 /\ plan.TakeProfit <= price
                THEN << FALSE, "long take profit invalid" >>
           ELSE IF (price - plan.StopLoss) * 100 > 10 * price
                THEN << FALSE, "stop distance too large" >>
           ELSE IF (price - plan.StopLoss) * 200 < price
                THEN << FALSE, "stop distance too small" >>
           ELSE << TRUE, "" >>
      ELSE IF plan.Action = "open_short"
      THEN IF plan.StopLoss <= price THEN << FALSE, "short stop loss invalid" >>
           ELSE IF plan.TakeProfit > 0 /\ plan.TakeProfit >= price
                THEN << FALSE, "short take profit invalid" >>
           ELSE IF (plan.StopLoss - price) * 100 > 10 * price
                THEN << FALSE, "stop distance too large" >>
           ELSE IF (plan.StopLoss - price) * 200 < price
                THEN << FALSE, "stop distance too small" >>
           ELSE << TRUE, "" >>
      ELSE << TRUE, "" >>

validateLeverageAndPosition(plan, data) ==
  IF data.ATR > 0 /\ data.CurrentPrice > 0 /\ data.ATR * 100 > 5 * data.CurrentPrice
     /\ plan.Leverage > 3 THEN << FALSE, "leverage too high for volatility" >>
  ELSE IF data.RSI14 > 80 /\ plan.Action = "open_long" THEN << FALSE, "RSI overbought" >>
  ELSE IF data.RSI14 < 20 /\ plan.Action = "open_short" THEN << FALSE, "RSI oversold" >>
  ELSE << TRUE, "" >>

\* << pass, reason >> of ValidateExecution; its counters are advanced by the caller
ValidateExecution(plan, decision, metrics, data) ==
  IF ~validateBasicParameters(plan)[1] THEN validateBasicParameters(plan)
  ELSE IF ~validateRiskMetrics(plan, metrics)[1] THEN validateRiskMetrics(plan, metrics)
  ELSE IF ~validateMarketData(data)[1] THEN validateMarketData(data)
  ELSE IF ~validateDecisionConsistency(plan, decision)[1]
       THEN validateDecisionConsistency(plan, decision)
  ELSE IF ~validateStopLossTakeProfit(plan, data)[1]
       THEN validateStopLossTakeProfit(plan, data)
  ELSE IF ~validateLeverageAndPosition(plan, data)[1]
       THEN validateLeverageAndPosition(plan, data)
  ELSE << TRUE, "validation passed" >>

(***************************************************************************)
(* OrderExecutor and OrderSender.  The Trader's answers to one order are   *)
(* an outcome record: which of its calls succeed.                          *)
(***************************************************************************)
AllSucceed == [ setLeverage |-> TRUE, open |-> TRUE, close |-> TRUE,
                setStopLoss |-> TRUE, setTakeProfit |-> TRUE ]
OpenFails == [ AllSucceed EXCEPT !.open = FALSE, !.close = FALSE ]
ExchangeOutcomes ==
  { AllSucceed,
    [ AllSucceed EXCEPT !.setLeverage = FALSE ],
    OpenFails,
    [ AllSucceed EXCEPT !.setStopLoss = FALSE, !.setTakeProfit = FALSE ] }

TraderCall(op, plan) == [ op |-> op, riskCheckPassed |-> plan.RiskCheckPassed ]

OrderResultOf(success, orderID, filled, message) ==
  [ nil |-> FALSE, Success |-> success, OrderID |-> orderID,
    FilledQuantity |-> filled, ErrorMessage |-> message ]

\* An open that asks the exchange a second time when the open fails
executeOpenRetrying(plan, ex, open) ==
  IF ~ex.setLeverage
  THEN [ result |-> OrderResultOf(FALSE, "", Frac(0, 1), "failed to set leverage"),
         err |-> TRUE, calls |-> << TraderCall("SetLeverage", plan) >> ]
  ELSE IF ~ex.open
  THEN [ result |-> OrderResultOf(FALSE, "", Frac(0, 1), "failed to open"),
         err |-> TRUE,
         calls |-> << TraderCall("SetLeverage", plan), TraderCall(open, plan),
                      TraderCall(open, plan) >> ]
  ELSE
    LET slCalls == IF plan.StopLoss > 0 THEN << TraderCall("SetStopLoss", plan) >>
                   ELSE << >>
        tpCalls == IF plan.TakeProfit > 0 THEN << TraderCall("SetTakeProfit", plan) >>
                   ELSE << >>
        warned  == (plan.StopLoss > 0 /\ ~ex.setStopLoss)
                   \/ (plan.TakeProfit > 0 /\ ~ex.setTakeProfit)
    IN  [ result |-> OrderResultOf(TRUE, "order", plan.Quantity,
                                   IF warned THEN "warning" ELSE ""),
          err |-> FALSE,
          calls |-> << TraderCall("SetLeverage", plan), TraderCall(open, plan) >>
                    \o slCalls \o tpCalls ]

\* An open that goes ahead although the leverage could not be set
executeOpenIgnoringLeverage(plan, ex, open) ==
  IF ~ex.open
  THEN [ result |-> OrderResultOf(FALSE, "", Frac(0, 1), "failed to open"),
         err |-> TRUE,
         calls |-> << TraderCall("SetLeverage", plan), TraderCall(open, plan) >> ]
  ELSE
    LET slCalls == IF plan.StopLoss > 0 THEN << TraderCall("SetStopLoss", plan) >>
                   ELSE << >>
        tpCalls == IF plan.TakeProfit > 0 THEN << TraderCall("SetTakeProfit", plan) >>
                   ELSE << >>
        warned  == (plan.StopLoss > 0 /\ ~ex.setStopLoss)
                   \/ (plan.TakeProfit > 0 /\ ~ex.setTakeProfit)
    IN  [ result |-> OrderResultOf(TRUE, "order", plan.Quantity,
                                   IF warned THEN "warning" ELSE ""),
          err |-> FALSE,
          calls |-> << TraderCall("SetLeverage", plan), TraderCall(open, plan) >>
                    \o slCalls \o tpCalls ]

\* An open that fails when a stop-loss or take-profit cannot be set
executeOpenStrictStops(plan, ex, open) ==
  IF ~ex.setLeverage
  THEN [ result |-> OrderResultOf(FALSE, "", Frac(0, 1), "failed to set leverage"),
         err |-> TRUE, calls |-> << TraderCall("SetLeverage", plan) >> ]
  ELSE IF ~ex.open
  THEN [ result |-> OrderResultOf(FALSE, "", Frac(0, 1), "failed to open"),
         err |-> TRUE,
         calls |-> << TraderCall("SetLeverage", plan), TraderCall(open, plan) >> ]
  ELSE
    LET slCalls == IF plan.StopLoss > 0 THEN << TraderCall("SetStopLoss", plan) >>
                   ELSE << >>
        tpCalls == IF plan.TakeProfit > 0 THEN << TraderCall("SetTakeProfit", plan) >>
                   ELSE << >>
        warned  == (plan.StopLoss > 0 /\ ~ex.setStopLoss)
                   \/ (plan.TakeProfit > 0 /\ ~ex.setTakeProfit)
    IN  [ result |-> OrderResultOf(~warned, "order", plan.Quantity,
                                   IF warned THEN "warning" ELSE ""),
          err |-> warned,
          calls |-> << TraderCall("SetLeverage", plan), TraderCall(open, plan) >>
                    \o slCalls \o tpCalls ]

\* executeOpenLong / executeOpenShort; open is "OpenLong" or "OpenShort"
executeOpen(plan, ex, open) ==
  IF ~ex.setLeverage
  THEN [ result |-> OrderResultOf(FALSE, "", Frac(0, 1), "failed to set leverage"),
         err |-> TRUE, calls |-> << TraderCall("SetLeverage", plan) >> ]
  ELSE IF ~ex.open
  THEN [ result |-> OrderResultOf(FALSE, "", Frac(0, 1), "failed to open"),
         err |-> TRUE,
         calls |-> << TraderCall("SetLeverage", plan), TraderCall(open, plan) >> ]
  ELSE
    LET slCalls == IF plan.StopLoss > 0 THEN << TraderCall("SetStopLoss", plan) >>
                   ELSE << >>
        tpCalls == IF plan.TakeProfit > 0 THEN << TraderCall("SetTakeProfit", plan) >>
                   ELSE << >>
        warned  == (plan.StopLoss > 0 /\ ~ex.setStopLoss)
                   \/ (plan.TakeProfit > 0 /\ ~ex.setTakeProfit)
    IN  [ result |-> OrderResultOf(TRUE, "order", plan.Quantity,
                                   IF warned THEN "warning" ELSE ""),
          err |-> FALSE,
          calls |-> << TraderCall("SetLeverage", plan), TraderCall(open, plan) >>
                    \o slCalls \o tpCalls ]

\* executeCloseLong / executeCloseShort
executeClose(plan, ex, close) ==
  IF ~ex.close
  THEN [ result |-> OrderResultOf(FALSE, "", Frac(0, 1), "failed to close"),
         err |-> TRUE, calls |-> << TraderCall(close, plan) >> ]
  ELSE [ result |-> OrderResultOf(TRUE, "order", plan.Quantity, ""),
         err |-> FALSE, calls |-> << TraderCall(close, plan) >> ]

\* The action switch of ExecuteOrder
executeByAction(plan, ex) ==
  CASE plan.Action = "open_long"   -> executeOpen(plan, ex, "OpenLong")
    [] plan.Action = "open_short"  -> executeOpen(plan, ex, "OpenShort")
    [] plan.Action = "close_long"  -> executeClose(plan, ex, "CloseLong")
    [] plan.Action = "close_short" -> executeClose(plan, ex, "CloseShort")
    [] OTHER -> [ result |-> OrderResultOf(FALSE, "", Frac(0, 1), "unknown action"),
                  err |-> TRUE, calls |-> << >> ]

\* An executor that does not look at the plan's risk verdict
ExecuteOrderUnchecked(plan, ex) ==
  IF plan.nil
  THEN [ result |-> OrderResultOf(FALSE, "", Frac(0, 1), "execution plan is nil"),
         err |-> TRUE, calls |-> << >> ]
  ELSE executeByAction(plan, ex)

ExecuteOrder(plan, ex) ==
  IF plan.nil
  THEN [ result |-> OrderResultOf(FALSE, "", Frac(0, 1), "execution plan is nil"),
         err |-> TRUE, calls |-> << >> ]
  ELSE IF ~plan.RiskCheckPassed
  THEN [ result |-> OrderResultOf(FALSE, "", Frac(0, 1), "risk check failed"),
         err |-> TRUE, calls |-> << >> ]
  ELSE executeByAction(plan, ex)

dryRunOrder(plan) ==
  [ result |-> OrderResultOf(TRUE, "DRYRUN", plan.Quantity, "[DRY RUN]"),
    err |-> FALSE, calls |-> << >> ]

\* A sender that goes to the executor whatever the mode
SendOrderAlwaysLive(cfg, plan, ex) == ExecuteOrder(plan, ex)

SendOrder(cfg, plan, ex) ==
  IF cfg.DryRun THEN dryRunOrder(plan) ELSE ExecuteOrder(plan, ex)

\* BatchSendOrders: the results collected and the Trader calls made, with
\* exs[i] the Trader's answers to the i-th plan
RECURSIVE BatchSendOrders(_, _, _)
BatchSendOrders(cfg, plans, exs) ==
  IF plans = << >> THEN [ results |-> << >>, calls |-> << >> ]
  ELSE LET rest == BatchSendOrders(cfg, Tail(plans), Tail(exs))
           plan == Head(plans)
       IN  IF plan.nil \/ ~plan.RiskCheckPassed THEN rest
           ELSE LET r == SendOrder(cfg, plan, Head(exs))
                IN  [ results |-> IF r.err THEN rest.results
                                  ELSE << r.result >> \o rest.results,
                      calls   |-> r.calls \o rest.calls ]

(***************************************************************************)
(* State after NewOrchestrator                                             *)
(***************************************************************************)
NoCycleLocals ==
  /\ rawMarketData = NoValue /\ cleanedData = NoValue /\ aiDecision = NoValue
  /\ riskMetrics = NoValue /\ executionPlan = NoValue /\ orderResult = NoValue
  /\ result = NoValue /\ stagesRun = << >>

\* A fresh orchestrator, whatever its configuration
InitFields ==
  /\ totalExecutions = 0 /\ successfulTrades = 0 /\ failedTrades = 0 /\ rejectedByRisk = 0
  /\ totalBalance = 0 /\ availableBalance = 0 /\ usedMargin = 0
  /\ dailyPnL = 0 /\ consecutiveLosses = 0 /\ circuitBreakerActive = FALSE
  /\ lastDecisionTime = ZeroTime /\ decisionsThisHour = 0
  /\ totalValidations = 0 /\ passedValidations = 0 /\ failedValidations = 0
  /\ now = 0
  /\ pc = "idle"
  /\ NoCycleLocals
  /\ oracleCalls = 0 /\ orderCalls = << >>
  /\ lossesSinceWin = 0
  /\ inFlight = [ t \in Threads |-> IdleFrame ]
  /\ passLog = << >>
  /\ ruleExecutor = [ maxDailyLossPercent   |-> 10,
                      maxDrawdownPercent    |-> 20,
                      coolingPeriodDuration |-> HourMinutes,
                      isTradingHalted       |-> FALSE,
                      haltReason            |-> "",
                      haltedAt              |-> ZeroTime,
                      canResumeAt           |-> ZeroTime,
                      accountEquity         |-> 10000,
                      dailyStartEquity      |-> 10000,
                      historicalHighEquity  |-> 10000,
                      lastResetDay          |-> 0 ]

Init ==
  /\ config \in Configs
  /\ InitFields

\* No cycle is running: the caller may start any operation
Callable == pc \in { "idle", "DONE" }

\* What an operation other than a cycle leaves of the previous cycle
ForgetCycle ==
  /\ pc' = "idle"
  /\ rawMarketData' = NoValue /\ cleanedData' = NoValue /\ aiDecision' = NoValue
  /\ riskMetrics' = NoValue /\ executionPlan' = NoValue /\ orderResult' = NoValue
  /\ result' = NoValue /\ stagesRun' = << >>
  /\ oracleCalls' = 0 /\ orderCalls' = << >>

(***************************************************************************)
(* Mutators of the risk state (Orchestrator.UpdateAccountInfo, ...,        *)
(* delegating to RiskCalculator)                                           *)
(***************************************************************************)
UpdateAccountInfo(b) ==
  /\ Callable
  /\ totalBalance' = b.total
  /\ availableBalance' = b.available
  /\ usedMargin' = b.used_margin
  /\ ForgetCycle
  /\ UNCHANGED << config, otherVars, statsVars, dailyPnL, consecutiveLosses, circuitBreakerActive,
                  lossesSinceWin, rateVars, validatorVars, now >>

UpdateDailyPnL(pnl) ==
  /\ Callable
  /\ dailyPnL' = pnl
  /\ circuitBreakerActive' =
       BreakerAfterDailyPnL(config, circuitBreakerActive, totalBalance, pnl)
  /\ ForgetCycle
  /\ UNCHANGED << config, otherVars, statsVars, totalBalance, availableBalance, usedMargin,
                  consecutiveLosses, lossesSinceWin, rateVars, validatorVars, now >>

\* consecutiveLosses after RecordTradeResult(isWin)
NextLossStreak(streak, isWin) == IF isWin THEN 0 ELSE streak + 1

\* A streak test that fires one loss late
LossStreakTripsLate(cfg, streak) ==
  cfg.CircuitBreakerEnabled /\ streak > cfg.MaxConsecutiveLosses

\* whether RecordTradeResult trips the breaker at this streak
LossStreakTrips(cfg, streak) ==
  cfg.CircuitBreakerEnabled /\ streak >= cfg.MaxConsecutiveLosses

RecordTradeResult(isWin) ==
  /\ Callable
  /\ isWin \/ consecutiveLosses < MaxLossStreak
  /\ consecutiveLosses' = NextLossStreak(consecutiveLosses, isWin)
  /\ lossesSinceWin' = IF isWin THEN 0 ELSE lossesSinceWin + 1
  /\ circuitBreakerActive' =
       IF LossStreakTrips(config, consecutiveLosses') THEN TRUE ELSE circuitBreakerActive
  /\ ForgetCycle
  /\ UNCHANGED << config, otherVars, statsVars, totalBalance, availableBalance, usedMargin,
                  dailyPnL, rateVars, validatorVars, now >>

ResetCircuitBreaker ==
  /\ Callable
  /\ circuitBreakerActive' = FALSE
  /\ consecutiveLosses' = 0
  /\ dailyPnL' = 0
  /\ lossesSinceWin' = 0
  /\ ForgetCycle
  /\ UNCHANGED << config, otherVars, statsVars, totalBalance, availableBalance, usedMargin,
                  rateVars, validatorVars, now >>

(***************************************************************************)
(* The same mutators called from several threads.  RiskCalculator holds no *)
(* lock: each read and each write of a field is a step of its own, and the *)
(* steps of two calls interleave.                                          *)
(***************************************************************************)
\* RiskCalculator.RecordTradeResult(false) on thread t: rc.consecutiveLosses++
\* reads the field, then writes it; the breaker test follows
RecordLossStep(t) ==
  /\ pc = "idle"
  /\ \/ /\ inFlight[t].pc = "idle"
        /\ lossesSinceWin < MaxLossStreak
        /\ inFlight' = [ inFlight EXCEPT ![t] = [ pc |-> "write_streak",
                                                  tmp |-> consecutiveLosses ] ]
        /\ lossesSinceWin' = lossesSinceWin + 1
        /\ UNCHANGED << consecutiveLosses, circuitBreakerActive >>
     \/ /\ inFlight[t].pc = "write_streak"
        /\ consecutiveLosses' = inFlight[t].tmp + 1
        /\ inFlight' = [ inFlight EXCEPT ![t] = [ pc |-> "check_streak", tmp |-> 0 ] ]
        /\ UNCHANGED << lossesSinceWin, circuitBreakerActive >>
     \/ /\ inFlight[t].pc = "check_streak"
        /\ circuitBreakerActive' =
             IF LossStreakTrips(config, consecutiveLosses) THEN TRUE
             ELSE circuitBreakerActive
        /\ inFlight' = [ inFlight EXCEPT ![t] = IdleFrame ]
        /\ UNCHANGED << consecutiveLosses, lossesSinceWin >>
  /\ UNCHANGED << config, statsVars, totalBalance, availableBalance, usedMargin,
                  dailyPnL, rateVars, validatorVars, now, cycleVars, oracleCalls,
                  orderCalls, passLog, ruleExecutor >>

\* RiskCalculator.UpdateDailyPnL(pnl) on thread t: the write of rc.dailyPnL,
\* then the breaker test, which reads the field again
UpdateDailyPnLStep(t, pnl) ==
  /\ pc = "idle"
  /\ \/ /\ inFlight[t].pc = "idle"
        /\ dailyPnL' = pnl
        /\ inFlight' = [ inFlight EXCEPT ![t] = [ pc |-> "check_pnl", tmp |-> pnl ] ]
        /\ UNCHANGED circuitBreakerActive
     \/ /\ inFlight[t].pc = "check_pnl"
        /\ pnl = inFlight[t].tmp
        /\ circuitBreakerActive' =
             BreakerAfterDailyPnL(config, circuitBreakerActive, totalBalance, dailyPnL)
        /\ inFlight' = [ inFlight EXCEPT ![t] = IdleFrame ]
        /\ UNCHANGED dailyPnL
  /\ UNCHANGED << config, statsVars, totalBalance, availableBalance, usedMargin,
                  consecutiveLosses, lossesSinceWin, rateVars, validatorVars, now,
                  cycleVars, oracleCalls, orderCalls, passLog, ruleExecutor >>

\* The clock advances by d minutes between operations
Tick(d) ==
  /\ Callable
  /\ now + d <= MaxTime
  /\ now' = now + d
  /\ UNCHANGED << config, otherVars, statsVars, riskVars, rateVars, validatorVars, cycleVars,
                  oracleCalls, orderCalls >>

(***************************************************************************)
(* Orchestrator.ExecuteTradingCycle, one action per stage.  pc names the   *)
(* stage the cycle runs next; a stage that returns sets pc to "DONE".      *)
(***************************************************************************)
CycleResult(success, message, error, err) ==
  [ nil |-> FALSE, Success |-> success, Message |-> message, Error |-> error,
    err |-> err ]

\* The oracle's answers to the three prompts of one MakeDecision
OracleScripts ==
  { << OracleError, OracleError, OracleError >>,
    << OracleJson("trending", 0), OracleJson("long_entry", 0), OracleJson("long", 8500) >>,
    << OracleJson("volatile", 0), OracleJson("short_entry", 0), OracleJson("short", 9500) >>,
    << OracleJson("sideways", 0), OracleJson("moon", 0), OracleJson("long", 5000) >>,
    << OracleText(FALSE), OracleText(FALSE), OracleText(FALSE) >>,
    << OracleJson("ranging", 0), OracleJson("none", 0), OracleJson("wait", 9000) >> }

\* Answers the oracle can give to each of the three prompts: a failure, tags
\* inside and outside the closed sets, confidences on both sides of 0.7, and
\* a body that is not JSON
ConditionAnswers ==
  { OracleError, OracleJson("trending", 0), OracleJson("sideways", 0) }
OpportunityAnswers ==
  { OracleError, OracleJson("short_entry", 0), OracleJson("scalp", 0),
    OracleJson("moon", 0) }
DecisionAnswers ==
  { OracleError, OracleJson("long", 8500), OracleJson("short", 6500),
    OracleText(FALSE) }
AnswerScripts == ConditionAnswers \X OpportunityAnswers \X DecisionAnswers

\* An entry that does not count the execution
BeginCycleUncounted(raw) ==
  /\ Callable
  /\ totalExecutions < MaxCycles
  /\ pc' = IF raw.nil THEN "PANIC" ELSE "DATA"
  /\ rawMarketData' = raw
  /\ cleanedData' = NoValue /\ aiDecision' = NoValue /\ riskMetrics' = NoValue
  /\ executionPlan' = NoValue /\ orderResult' = NoValue
  /\ result' = IF raw.nil THEN NoValue ELSE CycleResult(FALSE, "", "", FALSE)
  /\ stagesRun' = << >>
  /\ oracleCalls' = 0 /\ orderCalls' = << >>
  /\ UNCHANGED << config, otherVars, statsVars, riskVars, rateVars, validatorVars, now >>

\* Entry: the statistics counter, the result record, and the read of
\* rawMarketData.Symbol, which faults on a nil argument
BeginCycle(raw) ==
  /\ Callable
  /\ totalExecutions < MaxCycles
  /\ totalExecutions' = totalExecutions + 1
  /\ pc' = IF raw.nil THEN "PANIC" ELSE "DATA"
  /\ rawMarketData' = raw
  /\ cleanedData' = NoValue /\ aiDecision' = NoValue /\ riskMetrics' = NoValue
  /\ executionPlan' = NoValue /\ orderResult' = NoValue
  /\ result' = IF raw.nil THEN NoValue ELSE CycleResult(FALSE, "", "", FALSE)
  /\ stagesRun' = << >>
  /\ oracleCalls' = 0 /\ orderCalls' = << >>
  /\ UNCHANGED << config, otherVars, successfulTrades, failedTrades, rejectedByRisk, riskVars,
                  rateVars, validatorVars, now >>

\* 1.1 data cleaning (the input is not nil here)
StageData ==
  /\ pc = "DATA"
  /\ stagesRun' = Append(stagesRun, "DATA")
  /\ cleanedData' = ProcessMarketData(config, rawMarketData)
  /\ pc' = "ACCOUNT"
  /\ UNCHANGED << config, otherVars, statsVars, riskVars, rateVars, validatorVars, now,
                  rawMarketData, aiDecision, riskMetrics, executionPlan, orderResult,
                  result, oracleCalls, orderCalls >>

\* 1.2 account: GetAccountBalance answers with balance b, or fails
StageAccount(b, fails) ==
  /\ pc = "ACCOUNT"
  /\ stagesRun' = Append(stagesRun, "ACCOUNT")
  /\ IF fails
     THEN /\ result' = CycleResult(FALSE, "", "account fetch failed", TRUE)
          /\ pc' = "DONE"
          /\ UNCHANGED << totalBalance, availableBalance, usedMargin >>
     ELSE /\ totalBalance' = b.total
          /\ availableBalance' = b.available
          /\ usedMargin' = b.used_margin
          /\ pc' = "DECISION"
          /\ UNCHANGED result
  /\ UNCHANGED << config, otherVars, statsVars, dailyPnL, consecutiveLosses, circuitBreakerActive,
                  lossesSinceWin, rateVars, validatorVars, now, rawMarketData,
                  cleanedData, aiDecision, riskMetrics, executionPlan, orderResult,
                  oracleCalls, orderCalls >>

\* A decision stage that books a wait as a risk rejection
StageDecisionCountsWait(script, d) ==
  /\ pc = "DECISION"
  /\ now + d <= MaxTime
  /\ stagesRun' = Append(stagesRun, "DECISION")
  /\ LET r == MakeDecision(config, DM, now, now + d, cleanedData,
                           script[1], script[2], script[3])
     IN  /\ aiDecision' = r.decision
         /\ lastDecisionTime' = r.dm.lastDecisionTime
         /\ decisionsThisHour' = r.dm.decisionsThisHour
         /\ oracleCalls' = oracleCalls + r.oracleCalls
         /\ now' = IF r.oracleCalls = 0 THEN now ELSE now + d
         /\ IF r.err
            THEN /\ result' = CycleResult(FALSE, "", "decision failed", TRUE)
                 /\ pc' = "DONE"
                 /\ UNCHANGED rejectedByRisk
            ELSE IF r.decision.Direction = "wait"
            THEN /\ result' = CycleResult(TRUE, "wait", "", FALSE)
                 /\ rejectedByRisk' = rejectedByRisk + 1
                 /\ pc' = "DONE"
            ELSE /\ pc' = "RISK_SIZING"
                 /\ UNCHANGED << result, rejectedByRisk >>
  /\ UNCHANGED << config, otherVars, totalExecutions, successfulTrades, failedTrades, riskVars,
                  validatorVars, rawMarketData, cleanedData, riskMetrics,
                  executionPlan, orderResult, orderCalls >>

\* 2.1 decision: MakeDecision with the oracle answering script; the call
\* takes d minutes
StageDecision(script, d) ==
  /\ pc = "DECISION"
  /\ now + d <= MaxTime
  /\ stagesRun' = Append(stagesRun, "DECISION")
  /\ LET r == MakeDecision(config, DM, now, now + d, cleanedData,
                           script[1], script[2], script[3])
     IN  /\ aiDecision' = r.decision
         /\ lastDecisionTime' = r.dm.lastDecisionTime
         /\ decisionsThisHour' = r.dm.decisionsThisHour
         /\ oracleCalls' = oracleCalls + r.oracleCalls
         /\ now' = IF r.oracleCalls = 0 THEN now ELSE now + d
         /\ IF r.err
            THEN /\ result' = CycleResult(FALSE, "", "decision failed", TRUE)
                 /\ pc' = "DONE"
            ELSE IF r.decision.Direction = "wait"
            THEN /\ result' = CycleResult(TRUE, "wait", "", FALSE)
                 /\ pc' = "DONE"
            ELSE /\ pc' = "RISK_SIZING"
                 /\ UNCHANGED result
  /\ UNCHANGED << config, otherVars, statsVars, riskVars, validatorVars, rawMarketData,
                  cleanedData, riskMetrics, executionPlan, orderResult, orderCalls >>

\* 1.3 risk sizing for the decided direction
StageRisk ==
  /\ pc = "RISK_SIZING"
  /\ stagesRun' = Append(stagesRun, "RISK_SIZING")
  /\ LET m == CalculateRiskMetrics(config, RC, aiDecision.Direction, cleanedData)
     IN  /\ riskMetrics' = m
         /\ IF ~m.CanTrade
            THEN /\ result' = CycleResult(TRUE, m.RiskReason, "", FALSE)
                 /\ rejectedByRisk' = rejectedByRisk + 1
                 /\ pc' = "DONE"
            ELSE /\ pc' = "PARAMS"
                 /\ UNCHANGED << result, rejectedByRisk >>
  /\ UNCHANGED << config, otherVars, totalExecutions, successfulTrades, failedTrades, riskVars,
                  rateVars, validatorVars, now, rawMarketData, cleanedData, aiDecision,
                  executionPlan, orderResult, oracleCalls, orderCalls >>

\* 3.1 + 3.2 parameters and the provisional plan
StageParams ==
  /\ pc = "PARAMS"
  /\ stagesRun' = Append(stagesRun, "PARAMS")
  /\ executionPlan' =
       PrepareExecutionPlan(aiDecision,
                            CalculateParameters(config, aiDecision, riskMetrics, cleanedData),
                            TRUE, "preliminary check passed", now)
  /\ pc' = "VALIDATION"
  /\ UNCHANGED << config, otherVars, statsVars, riskVars, rateVars, validatorVars, now,
                  rawMarketData, cleanedData, aiDecision, riskMetrics, orderResult,
                  result, oracleCalls, orderCalls >>

\* A validation stage that does not count its rejections
StageValidationUncounted ==
  /\ pc = "VALIDATION"
  /\ stagesRun' = Append(stagesRun, "VALIDATION")
  /\ LET v == ValidateExecution(executionPlan, aiDecision, riskMetrics, cleanedData)
     IN  /\ totalValidations' = totalValidations + 1
         /\ passedValidations' = IF v[1] THEN passedValidations + 1 ELSE passedValidations
         /\ failedValidations' = IF v[1] THEN failedValidations ELSE failedValidations + 1
         /\ executionPlan' = [ executionPlan EXCEPT !.RiskCheckPassed = v[1],
                                                    !.RiskCheckReason = v[2] ]
         /\ IF ~v[1]
            THEN /\ result' = CycleResult(TRUE, v[2], "", FALSE)
                 /\ UNCHANGED rejectedByRisk
                 /\ pc' = "DONE"
            ELSE /\ pc' = "DISPATCH"
                 /\ UNCHANGED << result, rejectedByRisk >>
  /\ UNCHANGED << config, otherVars, totalExecutions, successfulTrades, failedTrades, riskVars,
                  rateVars, now, rawMarketData, cleanedData, aiDecision, riskMetrics,
                  orderResult, oracleCalls, orderCalls >>

\* 3.3 second risk validation; the verdict is stamped on the plan
StageValidation ==
  /\ pc = "VALIDATION"
  /\ stagesRun' = Append(stagesRun, "VALIDATION")
  /\ LET v == ValidateExecution(executionPlan, aiDecision, riskMetrics, cleanedData)
     IN  /\ totalValidations' = totalValidations + 1
         /\ passedValidations' = IF v[1] THEN passedValidations + 1 ELSE passedValidations
         /\ failedValidations' = IF v[1] THEN failedValidations ELSE failedValidations + 1
         /\ executionPlan' = [ executionPlan EXCEPT !.RiskCheckPassed = v[1],
                                                    !.RiskCheckReason = v[2] ]
         /\ IF ~v[1]
            THEN /\ result' = CycleResult(TRUE, v[2], "", FALSE)
                 /\ rejectedByRisk' = rejectedByRisk + 1
                 /\ pc' = "DONE"
            ELSE /\ pc' = "DISPATCH"
                 /\ UNCHANGED << result, rejectedByRisk >>
  /\ UNCHANGED << config, otherVars, totalExecutions, successfulTrades, failedTrades, riskVars,
                  rateVars, now, rawMarketData, cleanedData, aiDecision, riskMetrics,
                  orderResult, oracleCalls, orderCalls >>

\* A dispatch that tries again within the cycle when the send fails
StageDispatchRetry(ex) ==
  /\ pc = "DISPATCH"
  /\ stagesRun' = Append(stagesRun, "DISPATCH")
  /\ LET r == SendOrder(config, executionPlan, ex)
     IN  /\ orderCalls' = orderCalls \o r.calls
         /\ IF r.err
            THEN /\ result' = CycleResult(FALSE, "", "order send failed", TRUE)
                 /\ failedTrades' = failedTrades + 1
                 /\ pc' = "DISPATCH"
                 /\ UNCHANGED << successfulTrades, orderResult >>
            ELSE /\ orderResult' = r.result
                 /\ successfulTrades' = successfulTrades + 1
                 /\ result' = CycleResult(TRUE, "trade executed", "", FALSE)
                 /\ pc' = "DONE"
                 /\ UNCHANGED failedTrades
  /\ UNCHANGED << config, otherVars, totalExecutions, rejectedByRisk, riskVars, rateVars,
                  validatorVars, now, rawMarketData, cleanedData, aiDecision,
                  riskMetrics, executionPlan, oracleCalls >>

\* 3.4 dispatch; the Trader answers with ex
StageDispatch(ex) ==
  /\ pc = "DISPATCH"
  /\ stagesRun' = Append(stagesRun, "DISPATCH")
  /\ LET r == SendOrder(config, executionPlan, ex)
     IN  /\ orderCalls' = orderCalls \o r.calls
         /\ IF r.err
            THEN /\ result' = CycleResult(FALSE, "", "order send failed", TRUE)
                 /\ failedTrades' = failedTrades + 1
                 /\ UNCHANGED << successfulTrades, orderResult >>
            ELSE /\ orderResult' = r.result
                 /\ IF r.result.Success
                    THEN /\ successfulTrades' = successfulTrades + 1
                         /\ result' = CycleResult(TRUE, "trade executed", "", FALSE)
                         /\ UNCHANGED failedTrades
                    ELSE /\ failedTrades' = failedTrades + 1
                         /\ result' = CycleResult(FALSE, "", r.result.ErrorMessage, FALSE)
                         /\ UNCHANGED successfulTrades
  /\ pc' = "DONE"
  /\ UNCHANGED << config, otherVars, totalExecutions, rejectedByRisk, riskVars, rateVars,
                  validatorVars, now, rawMarketData, cleanedData, aiDecision,
                  riskMetrics, executionPlan, oracleCalls >>

(***************************************************************************)
(* Direct calls of the execution components                                *)
(***************************************************************************)
\* A plan as a caller may build it
SamplePlan ==
  [ nil             |-> FALSE,
    Symbol          |-> "BTCUSDT",
    Timestamp       |-> 0,
    Action          |-> "open_long",
    Quantity        |-> Frac(1, 450),
    QuantityUSD     |-> Frac(100, 1),
    Leverage        |-> 2,
    StopLoss        |-> 44500 * PriceScale,
    TakeProfit      |-> 46000 * PriceScale,
    RiskCheckPassed |-> TRUE,
    RiskCheckReason |-> "validation passed",
    Priority        |-> "normal" ]

NilPlan == [ SamplePlan EXCEPT !.nil = TRUE ]

DirectPlans ==
  { SamplePlan,
    [ SamplePlan EXCEPT !.RiskCheckPassed = FALSE, !.RiskCheckReason = "confidence too low" ],
    [ SamplePlan EXCEPT !.Action = "close_long", !.StopLoss = 0, !.TakeProfit = 0 ],
    [ SamplePlan EXCEPT !.Action = "close_short", !.RiskCheckPassed = FALSE ],
    [ SamplePlan EXCEPT !.Action = "open_short", !.StopLoss = 45500 * PriceScale,
                        !.TakeProfit = 0 ],
    [ SamplePlan EXCEPT !.Action = "wait" ],
    NilPlan }

BatchPlans ==
  { SamplePlan,
    [ SamplePlan EXCEPT !.RiskCheckPassed = FALSE, !.RiskCheckReason = "confidence too low" ],
    [ SamplePlan EXCEPT !.Action = "close_long", !.StopLoss = 0, !.TakeProfit = 0 ],
    NilPlan }

\* What a direct call leaves in the variables of the cycle
DirectCall(r) ==
  /\ pc' = "idle"
  /\ rawMarketData' = NoValue /\ cleanedData' = NoValue /\ aiDecision' = NoValue
  /\ riskMetrics' = NoValue /\ result' = NoValue /\ stagesRun' = << >>
  /\ oracleCalls' = 0
  /\ orderCalls' = r.calls
  /\ UNCHANGED << config, otherVars, statsVars, riskVars, rateVars, validatorVars, now >>

\* OrderSender.SendOrder; in dry-run mode a nil plan faults at plan.Quantity
SendOrderDirect(plan, ex) ==
  /\ Callable
  /\ IF config.DryRun /\ plan.nil
     THEN /\ pc' = "PANIC"
          /\ UNCHANGED << config, otherVars, statsVars, riskVars, rateVars, validatorVars, now,
                          rawMarketData, cleanedData, aiDecision, riskMetrics,
                          executionPlan, orderResult, result, stagesRun,
                          oracleCalls, orderCalls >>
     ELSE LET r == SendOrder(config, plan, ex)
          IN  /\ executionPlan' = plan
              /\ orderResult' = r.result
              /\ DirectCall(r)

\* OrderExecutor.ExecuteOrder
ExecuteOrderDirect(plan, ex) ==
  /\ Callable
  /\ LET r == ExecuteOrder(plan, ex)
     IN  /\ executionPlan' = plan
         /\ orderResult' = r.result
         /\ DirectCall(r)

\* OrderSender.BatchSendOrders on two plans, the Trader answering both with ex
BatchSendOrdersDirect(p1, p2, ex) ==
  /\ Callable
  /\ LET r == BatchSendOrders(config, << p1, p2 >>, << ex, ex >>)
     IN  /\ executionPlan' = p2
         /\ orderResult' = IF r.results = << >> THEN NoValue
                           ELSE r.results[Len(r.results)]
         /\ DirectCall(r)

(***************************************************************************)
(* The executor of package trader (ExecuteOpenLong / ExecuteOpenShort).    *)
(* It takes parameters instead of a plan and sets the margin mode first;   *)
(* a failure of that call is logged and the open goes on.                  *)
(***************************************************************************)
ExchangeCall(op) == [ op |-> op ]

OpenResultOf(params) ==
  [ nil |-> FALSE, OrderID |-> "order", Symbol |-> params.Symbol,
    Quantity |-> params.Quantity ]

\* The body shared by ExecuteOpenLong and ExecuteOpenShort; marginModeOk is
\* the exchange's answer to SetMarginMode
executorOpen(params, marginModeOk, ex, open) ==
  LET head == << ExchangeCall("SetMarginMode"), ExchangeCall("SetLeverage") >>
  IN  IF ~ex.setLeverage
      THEN [ result |-> NoValue, err |-> TRUE, calls |-> head ]
      ELSE IF ~ex.open
      THEN [ result |-> NoValue, err |-> TRUE,
             calls |-> Append(head, ExchangeCall(open)) ]
      ELSE [ result |-> OpenResultOf(params), err |-> FALSE,
             calls |-> Append(head, ExchangeCall(open))
                       \o (IF params.StopLoss > 0
                           THEN << ExchangeCall("SetStopLoss") >> ELSE << >>)
                       \o (IF params.TakeProfit > 0
                           THEN << ExchangeCall("SetTakeProfit") >> ELSE << >>) ]

ExecuteOpenLong(params, marginModeOk, ex) ==
  executorOpen(params, marginModeOk, ex, "OpenLong")
ExecuteOpenShort(params, marginModeOk, ex) ==
  executorOpen(params, marginModeOk, ex, "OpenShort")

\* Open plans and open parameters with and without stop-loss / take-profit
StopPrices == { 0, 44500 * PriceScale }
TargetPrices == { 0, 46000 * PriceScale }
OpenPlans ==
  { [ SamplePlan EXCEPT !.Action = a, !.StopLoss = sl, !.TakeProfit = tp ] :
      a \in { "open_long", "open_short" }, sl \in StopPrices, tp \in TargetPrices }
OpenParams ==
  { [ Symbol |-> "BTCUSDT", Quantity |-> Frac(1, 450), Leverage |-> 2,
      StopLoss |-> sl, TakeProfit |-> tp ] :
      sl \in StopPrices, tp \in TargetPrices }

ExecuteOpenLongDirect(params, marginModeOk, ex) ==
  /\ Callable
  /\ LET r == ExecuteOpenLong(params, marginModeOk, ex)
     IN  /\ executionPlan' = NoValue
         /\ orderResult' = r.result
         /\ DirectCall(r)

ExecuteOpenShortDirect(params, marginModeOk, ex) ==
  /\ Callable
  /\ LET r == ExecuteOpenShort(params, marginModeOk, ex)
     IN  /\ executionPlan' = NoValue
         /\ orderResult' = r.result
         /\ DirectCall(r)

(***************************************************************************)
(* Direct calls of the DecisionMaker                                       *)
(***************************************************************************)
\* Cleaned snapshots and oracle answers of a direct MakeDecision
CleanedInputs == { ProcessMarketData(TestConfig, NormalData) }
DirectScripts ==
  { << OracleError, OracleError, OracleError >>,
    << OracleJson("trending", 0), OracleJson("long_entry", 0), OracleJson("long", 8500) >>,
    << OracleJson("sideways", 0), OracleJson("moon", 0), OracleJson("long", 5000) >> }

\* DecisionMaker.MakeDecision(data); the call takes d minutes when the
\* oracle is consulted
MakeDecisionCall(data, script, d) ==
  /\ Callable
  /\ now + d <= MaxTime
  /\ LET r == MakeDecision(config, DM, now, now + d, data,
                           script[1], script[2], script[3])
     IN  /\ aiDecision' = r.decision
         /\ lastDecisionTime' = r.dm.lastDecisionTime
         /\ decisionsThisHour' = r.dm.decisionsThisHour
         /\ oracleCalls' = r.oracleCalls
         /\ now' = IF r.oracleCalls = 0 THEN now ELSE now + d
  /\ pc' = "idle"
  /\ cleanedData' = data
  /\ rawMarketData' = NoValue /\ riskMetrics' = NoValue /\ executionPlan' = NoValue
  /\ orderResult' = NoValue /\ result' = NoValue /\ stagesRun' = << >>
  /\ orderCalls' = << >>
  /\ UNCHANGED << config, statsVars, riskVars, validatorVars >>

MakeDecisionDirect(data, script, d) ==
  /\ MakeDecisionCall(data, script, d)
  /\ UNCHANGED otherVars

\* The same call with the limiter observed: a call that passes checkRateLimit
\* (it goes on to consult the oracle) has its time appended to passLog, which
\* keeps the latest MaxDecisionsPerHour + 1 passes
MakeDecisionObserved(data, script, d) ==
  /\ MakeDecisionCall(data, script, d)
  /\ passLog' = IF checkRateLimit(config, DM, now).ok
                THEN LET log == Append(passLog, now)
                     IN  IF Len(log) > config.MaxDecisionsPerHour + 1 THEN Tail(log)
                         ELSE log
                ELSE passLog
  /\ UNCHANGED << inFlight, ruleExecutor >>

\* DecisionMaker.GetRateLimitStatus (also reached through Orchestrator.GetStats):
\* it evaluates checkRateLimit, whose hourly reset writes decisionsThisHour
GetRateLimitStatus ==
  /\ Callable
  /\ decisionsThisHour' = checkRateLimit(config, DM, now).decisionsThisHour
  /\ ForgetCycle
  /\ UNCHANGED << config, otherVars, statsVars, riskVars, lastDecisionTime, validatorVars, now >>

\* DecisionMaker.ResetRateLimit
ResetRateLimit ==
  /\ Callable
  /\ decisionsThisHour' = 0
  /\ lastDecisionTime' = ZeroTime
  /\ ForgetCycle
  /\ UNCHANGED << config, otherVars, statsVars, riskVars, validatorVars, now >>

(***************************************************************************)
(* Specifications                                                          *)
(***************************************************************************)
Cycle ==
  \/ \E raw \in RawInputs : BeginCycle(raw)
  \/ StageData
  \/ \E b \in Balances : \E fails \in BOOLEAN : StageAccount(b, fails)
  \/ \E script \in OracleScripts : StageDecision(script, 0)
  \/ StageRisk
  \/ StageParams
  \/ StageValidation
  \/ \E ex \in ExchangeOutcomes : StageDispatch(ex)

RiskOps ==
  \/ \E b \in Balances : UpdateAccountInfo(b)
  \/ \E pnl \in PnLValues : UpdateDailyPnL(pnl)
  \/ \E isWin \in BOOLEAN : RecordTradeResult(isWin)
  \/ ResetCircuitBreaker

\* The orchestrator: trading cycles, serialised with the risk mutators
Next == Cycle \/ RiskOps

Spec == Init /\ [][Next]_vars

\* The dispatch path, through cycles and through direct calls
SpecDispatch ==
  /\ Init
  /\ [][ \/ Cycle
         \/ \E plan \in DirectPlans : \E ex \in ExchangeOutcomes : SendOrderDirect(plan, ex)
         \/ \E plan \in DirectPlans : \E ex \in ExchangeOutcomes : ExecuteOrderDirect(plan, ex)
         \/ \E p1, p2 \in BatchPlans : \E ex \in { AllSucceed, OpenFails } :
               BatchSendOrdersDirect(p1, p2, ex) ]_vars

\* The order sender: through cycles, direct sends and batch sends
SpecSend ==
  /\ Init
  /\ [][ \/ Cycle
         \/ \E plan \in DirectPlans : \E ex \in ExchangeOutcomes : SendOrderDirect(plan, ex)
         \/ \E p1, p2 \in BatchPlans : \E ex \in { AllSucceed, OpenFails } :
               BatchSendOrdersDirect(p1, p2, ex) ]_vars

\* Identical dry-run cycles: the same snapshot, balance, oracle answers and
\* exchange answers every time; the first cycle runs at clock 0, the later
\* ones at the same or at a later clock reading
TwinScript ==
  << OracleJson("trending", 0), OracleJson("long_entry", 0), OracleJson("long", 8500) >>
TwinBalance == [ total |-> 10000, available |-> 8000, used_margin |-> 2000 ]

InitTwin ==
  /\ config \in { TestConfig, DryCooldownConfig }
  /\ InitFields

SpecTwin ==
  /\ InitTwin
  /\ [][ \/ BeginCycle(NormalData)
         \/ StageData
         \/ StageAccount(TwinBalance, FALSE)
         \/ StageDecision(TwinScript, 0)
         \/ StageRisk
         \/ StageParams
         \/ StageValidation
         \/ StageDispatch(AllSucceed)
         \/ \E d \in { 1, 30, 31 } : totalExecutions >= 1 /\ Tick(d) ]_vars

\* Open orders, through the executor of the layers and through the executor
\* of package trader
SpecOpen ==
  /\ Init
  /\ [][ \/ \E plan \in OpenPlans : \E ex \in ExchangeOutcomes : ExecuteOrderDirect(plan, ex)
         \/ \E params \in OpenParams : \E ok \in BOOLEAN : \E ex \in ExchangeOutcomes :
               ExecuteOpenLongDirect(params, ok, ex)
         \/ \E params \in OpenParams : \E ok \in BOOLEAN : \E ex \in ExchangeOutcomes :
               ExecuteOpenShortDirect(params, ok, ex) ]_vars

\* The risk calculator alone
SpecRisk == Init /\ [][RiskOps]_vars

\* Trading cycles alone, with every combination of oracle answers, with a
\* configuration whose minConfidence is below 0.7 and with a priced snapshot
\* of low quality
InitAI ==
  /\ config \in { TestConfig, LowConfidenceConfig }
  /\ InitFields

SpecAI ==
  /\ InitAI
  /\ [][ \/ \E raw \in RawInputs \cup { NoEMAData } : BeginCycle(raw)
         \/ StageData
         \/ \E b \in Balances : \E fails \in BOOLEAN : StageAccount(b, fails)
         \/ \E script \in AnswerScripts : StageDecision(script, 0)
         \/ StageRisk
         \/ StageParams
         \/ StageValidation
         \/ \E ex \in ExchangeOutcomes : StageDispatch(ex) ]_vars

\* The decision maker alone, with the clock
SpecDM ==
  /\ Init
  /\ [][ \/ \E data \in CleanedInputs : \E script \in DirectScripts : \E d \in { 0, 1 } :
               MakeDecisionDirect(data, script, d)
         \/ GetRateLimitStatus
         \/ ResetRateLimit
         \/ \E d \in { 30, 31 } : Tick(d) ]_vars

\* Cycles on every snapshot and balance under the shipped leverage settings,
\* under a configuration whose default_leverage key is absent (the int stays
\* 0) and under one whose default exceeds the maximum
InitLeverage ==
  /\ config \in { TestConfig, [ TestConfig EXCEPT !.DefaultLeverage = 0 ],
                   [ TestConfig EXCEPT !.DefaultLeverage = 8 ] }
  /\ InitFields

SpecLeverage ==
  /\ InitLeverage
  /\ [][ \/ \E raw \in RawInputs : BeginCycle(raw)
         \/ StageData
         \/ \E b \in Balances : StageAccount(b, FALSE)
         \/ StageDecision(TwinScript, 0)
         \/ StageRisk
         \/ StageParams
         \/ StageValidation
         \/ StageDispatch(AllSucceed) ]_vars

\* The rate limiter observed under a limit of two decisions per hour with a
\* cooldown of 30 minutes, of none, and of more than an hour; no manual reset
InitLimiter ==
  /\ config \in { LiveConfig, LiveFastConfig, [ LiveConfig EXCEPT !.CooldownMinutes = 61 ] }
  /\ InitFields

SpecLimiter ==
  /\ InitLimiter
  /\ [][ \/ \E d \in { 0, 1 } : MakeDecisionObserved(ProcessMarketData(config, NormalData),
                                                       TwinScript, d)
         \/ GetRateLimitStatus
         \/ \E d \in { 30, 31 } : Tick(d) ]_vars

(***************************************************************************)
(* market.DataCleaner.  A snapshot (market.Data) holds its open-interest    *)
(* record through a pointer; OpenInterest below is the record pointed to.  *)
(***************************************************************************)
\* Snapshots a caller may hand to the cleaner
MarketSnapshots ==
  { [ nil |-> FALSE, Symbol |-> "BTCUSDT", CurrentRSI7 |-> rsi,
      PriceChange1h |-> c1, PriceChange4h |-> c4, OpenInterest |-> oi ] :
      rsi \in { -5, 50, 150 }, c1 \in { -60, 2 }, c4 \in { 3, 120 },
      oi \in { NoValue,
               [ nil |-> FALSE, Latest |-> 100, Average |-> 1000 ],
               [ nil |-> FALSE, Latest |-> -100, Average |-> 1000 ],
               [ nil |-> FALSE, Latest |-> 100, Average |-> -5 ] } }

\* CleanMarketData on a non-nil snapshot: the cleaned copy it returns and the
\* caller's snapshot after the call.  cleaned := *data copies the fields and
\* the OpenInterest pointer, so the writes through cleaned.OpenInterest land
\* in the record the caller's snapshot points to.
CleanMarketData(data) ==
  LET rsi == IF data.CurrentRSI7 < 0 THEN 0
             ELSE IF data.CurrentRSI7 > 100 THEN 100 ELSE data.CurrentRSI7
      oi  == IF data.OpenInterest.nil THEN data.OpenInterest
             ELSE [ data.OpenInterest EXCEPT
                      !.Latest  = IF @ < 0 THEN 0 ELSE @,
                      !.Average = IF @ < 0 THEN 0 ELSE @ ]
      c1  == IF Abs(data.PriceChange1h) > 50
             THEN (IF data.PriceChange1h < 0 THEN -50 ELSE 50) ELSE data.PriceChange1h
      c4  == IF Abs(data.PriceChange4h) > 100
             THEN (IF data.PriceChange4h < 0 THEN -100 ELSE 100) ELSE data.PriceChange4h
  IN  [ cleaned |-> [ data EXCEPT !.CurrentRSI7 = rsi, !.OpenInterest = oi,
                                  !.PriceChange1h = c1, !.PriceChange4h = c4 ],
        input   |-> [ data EXCEPT !.OpenInterest = oi ] ]

\* DataCleaner.CleanMarketData(data) called on the caller's snapshot
CleanMarketDataDirect(data) ==
  /\ Callable
  /\ rawMarketData' = CleanMarketData(data).input
  /\ cleanedData' = CleanMarketData(data).cleaned
  /\ pc' = "idle"
  /\ aiDecision' = NoValue /\ riskMetrics' = NoValue /\ executionPlan' = NoValue
  /\ orderResult' = NoValue /\ result' = NoValue /\ stagesRun' = << >>
  /\ oracleCalls' = 0 /\ orderCalls' = << >>
  /\ UNCHANGED << config, otherVars, statsVars, riskVars, rateVars, validatorVars, now >>

\* Snapshots handed to the cleaner, and to the cycle's processing stage
SpecClean ==
  /\ Init
  /\ [][ \/ \E data \in MarketSnapshots : CleanMarketDataDirect(data)
         \/ \E raw \in RawInputs : BeginCycle(raw)
         \/ StageData
         \/ \E b \in Balances : StageAccount(b, FALSE)
         \/ StageDecision(TwinScript, 0)
         \/ StageRisk
         \/ StageParams
         \/ StageValidation
         \/ StageDispatch(AllSucceed) ]_vars

(***************************************************************************)
(* foundation.RuleExecutor, built by NewRuleExecutor(10000, 10, 20).  The  *)
(* clock starts at 23:30 UTC, so that the day changes 30 minutes in;       *)
(* lastResetDay is the day of lastResetTime.  Equities are positive, and   *)
(* the percentages are compared by cross-multiplication.                   *)
(***************************************************************************)
\* A check that applies the rules without looking at the halt
checkTradingRulesIgnoringHalt(re, currentEquity, t) ==
  LET day == (1410 + t) \div 1440
      re1 == [ re EXCEPT
                 !.accountEquity = currentEquity,
                 !.historicalHighEquity = IF currentEquity > @ THEN currentEquity ELSE @,
                 !.dailyStartEquity = IF day # re.lastResetDay THEN currentEquity ELSE @,
                 !.lastResetDay = day ]
      halted(reason) == [ re1 EXCEPT !.isTradingHalted = TRUE, !.haltReason = reason,
                                     !.haltedAt = t,
                                     !.canResumeAt = t + re1.coolingPeriodDuration ]
  IN  IF (currentEquity - re1.dailyStartEquity) * 100
           < -(re1.maxDailyLossPercent * re1.dailyStartEquity)
      THEN [ re |-> halted("daily loss"), IsTradingAllowed |-> FALSE ]
      ELSE IF (re1.historicalHighEquity - currentEquity) * 100
                > re1.maxDrawdownPercent * re1.historicalHighEquity
      THEN [ re |-> halted("drawdown"), IsTradingAllowed |-> FALSE ]
      ELSE [ re |-> re1, IsTradingAllowed |-> TRUE ]

\* CheckTradingRules(currentEquity) at time t: the executor afterwards and
\* the answer
checkTradingRules(re, currentEquity, t) ==
  LET day == (1410 + t) \div 1440
      re1 == [ re EXCEPT
                 !.accountEquity = currentEquity,
                 !.historicalHighEquity = IF currentEquity > @ THEN currentEquity ELSE @,
                 !.dailyStartEquity = IF day # re.lastResetDay THEN currentEquity ELSE @,
                 !.lastResetDay = day ]
      re2 == IF re1.isTradingHalted
             THEN [ re1 EXCEPT !.isTradingHalted = FALSE, !.haltReason = "" ]
             ELSE re1
      halted(reason) == [ re2 EXCEPT !.isTradingHalted = TRUE, !.haltReason = reason,
                                     !.haltedAt = t,
                                     !.canResumeAt = t + re2.coolingPeriodDuration ]
  IN  IF re1.isTradingHalted /\ t < re1.canResumeAt
      THEN [ re |-> re1, IsTradingAllowed |-> FALSE ]
      ELSE IF (currentEquity - re2.dailyStartEquity) * 100
                < -(re2.maxDailyLossPercent * re2.dailyStartEquity)
      THEN [ re |-> halted("daily loss"), IsTradingAllowed |-> FALSE ]
      ELSE IF (re2.historicalHighEquity - currentEquity) * 100
                > re2.maxDrawdownPercent * re2.historicalHighEquity
      THEN [ re |-> halted("drawdown"), IsTradingAllowed |-> FALSE ]
      ELSE [ re |-> re2, IsTradingAllowed |-> TRUE ]

\* RuleExecutor.CheckTradingRules; result holds the RuleCheckResult
CheckTradingRules(currentEquity) ==
  /\ Callable
  /\ LET r == checkTradingRules(ruleExecutor, currentEquity, now)
     IN  /\ ruleExecutor' = r.re
         /\ result' = [ nil |-> FALSE, IsTradingAllowed |-> r.IsTradingAllowed,
                        HaltReason |-> IF r.IsTradingAllowed THEN "" ELSE r.re.haltReason ]
  /\ UNCHANGED << config, statsVars, riskVars, rateVars, validatorVars, now, pc,
                  rawMarketData, cleanedData, aiDecision, riskMetrics, executionPlan,
                  orderResult, stagesRun, oracleCalls, orderCalls, inFlight, passLog >>

\* RuleExecutor.ManualHaltTrading(reason, duration)
ManualHaltTrading(duration) ==
  /\ Callable
  /\ ruleExecutor' = [ ruleExecutor EXCEPT !.isTradingHalted = TRUE,
                                            !.haltReason = "manual",
                                            !.haltedAt = now,
                                            !.canResumeAt = now + duration ]
  /\ UNCHANGED << config, statsVars, riskVars, rateVars, validatorVars, now, cycleVars,
                  oracleCalls, orderCalls, inFlight, passLog >>

\* RuleExecutor.ManualResumeTrading
ManualResumeTrading ==
  /\ Callable
  /\ ruleExecutor' = [ ruleExecutor EXCEPT !.isTradingHalted = FALSE, !.haltReason = "" ]
  /\ UNCHANGED << config, statsVars, riskVars, rateVars, validatorVars, now, cycleVars,
                  oracleCalls, orderCalls, inFlight, passLog >>

\* The rule executor with the clock: checks at the opening equity, after a
\* loss of 11%, at a new high and in a drawdown of more than 20% from it
SpecRules ==
  /\ Init
  /\ [][ \/ \E e \in { 10000, 8900, 12000, 9500 } : CheckTradingRules(e)
         \/ \E duration \in { 0, 31 } : ManualHaltTrading(duration)
         \/ ManualResumeTrading
         \/ \E d \in { 30, 31 } : Tick(d) ]_vars

\* Two threads calling the mutators of the risk state
SpecRace ==
  /\ Init
  /\ [][ \E t \in Threads :
           \/ RecordLossStep(t)
           \/ \E pnl \in PnLValues : UpdateDailyPnLStep(t, pnl) ]_vars

\* Arguments a caller may hand to RiskValidator.ValidateExecution: forced
\* plans on every order action with stops and targets on both sides of the
\* price (45000), decisions of each direction, tradable low-risk metrics and
\* a cleaned snapshot of full quality
ValidatorInputs ==
  LET data     == ProcessMarketData(TestConfig, NormalData)
      fresh    == [ lastDecisionTime |-> ZeroTime, decisionsThisHour |-> 0 ]
      decision == MakeDecision(TestConfig, fresh, 0, 0, data,
                               TwinScript[1], TwinScript[2], TwinScript[3]).decision
      rc       == [ totalBalance         |-> TwinBalance.total,
                    availableBalance     |-> TwinBalance.available,
                    usedMargin           |-> TwinBalance.used_margin,
                    dailyPnL             |-> 0,
                    consecutiveLosses    |-> 0,
                    circuitBreakerActive |-> FALSE ]
  IN  [ plans     |-> { [ SamplePlan EXCEPT !.Action = a,
                                            !.StopLoss = sl * PriceScale,
                                            !.TakeProfit = tp * PriceScale,
                                            !.RiskCheckPassed = FALSE,
                                            !.RiskCheckReason = "" ] :
                          a \in OrderActions,
                          sl \in { 40000, 44500, 45000, 45500 },
                          tp \in { 0, 44000, 46000 } },
        decisions |-> { [ decision EXCEPT !.Direction = d, !.Opportunity = o ] :
                          d \in { "long", "short", "wait" },
                          o \in { "long_entry", "long_exit" } },
        metrics   |-> CalculateRiskMetrics(TestConfig, rc, "long", data),
        data      |-> data ]

\* RiskValidator.ValidateExecution called by a test or another caller: the
\* counters advance; the arguments stay in the cycle's variables and result
\* holds the answer (pass, reason)
ValidateExecutionDirect(plan, decision, metrics, data) ==
  /\ Callable
  /\ totalValidations < MaxCycles
  /\ LET v == ValidateExecution(plan, decision, metrics, data)
     IN  /\ totalValidations' = totalValidations + 1
         /\ passedValidations' = IF v[1] THEN passedValidations + 1 ELSE passedValidations
         /\ failedValidations' = IF v[1] THEN failedValidations ELSE failedValidations + 1
         /\ result' = CycleResult(v[1], v[2], "", FALSE)
  /\ pc' = "idle"
  /\ executionPlan' = plan /\ aiDecision' = decision
  /\ riskMetrics' = metrics /\ cleanedData' = data
  /\ rawMarketData' = NoValue /\ orderResult' = NoValue /\ stagesRun' = << >>
  /\ oracleCalls' = 0 /\ orderCalls' = << >>
  /\ UNCHANGED << config, otherVars, statsVars, riskVars, rateVars, now >>

\* The risk validator called on forced arguments
SpecValidate ==
  /\ Init
  /\ [][ \E plan \in ValidatorInputs.plans, decision \in ValidatorInputs.decisions :
           ValidateExecutionDirect(plan, decision, ValidatorInputs.metrics,
                                   ValidatorInputs.data) ]_vars

(***************************************************************************)
(* Properties                                                              *)
(***************************************************************************)
InSeq(x, s) == \E i \in 1..Len(s) : s[i] = x

\* The stages of a cycle, in the order of ExecuteTradingCycle
StageOrder == << "DATA", "ACCOUNT", "DECISION", "RISK_SIZING", "PARAMS",
                "VALIDATION", "DISPATCH" >>

\* C1: after any sequence of trading cycles on one orchestrator,
\* successfulTrades + failedTrades + rejectedByRisk <= totalExecutions.
C1_CountersWithinExecutions ==
  successfulTrades + failedTrades + rejectedByRisk <= totalExecutions

\* Two cycles have completed, one traded and one was rejected
C1_Witness ==
  /\ pc = "DONE" /\ totalExecutions = 2
  /\ successfulTrades = 1 /\ rejectedByRisk = 1

\* C2: every order-changing call that reaches the exchange is made for a plan
\* whose riskCheckPassed is true, whether the plan arrives through a trading
\* cycle, a direct execute call or batch dispatch.
C2_OnlyPassedPlansDispatched ==
  \A i \in 1..Len(orderCalls) : orderCalls[i].riskCheckPassed

\* The exchange has been called for a batch whose last plan had failed its
\* risk check
C2_Witness ==
  /\ pc = "idle" /\ Len(orderCalls) > 0
  /\ ~executionPlan.nil /\ ~executionPlan.RiskCheckPassed

\* C3: while the circuit breaker is active, no trading cycle is at or past
\* its dispatch stage and no order has gone to the exchange.
C3_NoDispatchWhileBreakerActive ==
  circuitBreakerActive =>
    /\ pc # "DISPATCH"
    /\ ~InSeq("DISPATCH", stagesRun)
    /\ orderCalls = << >>

\* A cycle ran with the breaker active and a direction decided, and ended at
\* risk sizing
C3_Witness ==
  /\ circuitBreakerActive /\ pc = "DONE"
  /\ ~riskMetrics.nil /\ ~riskMetrics.CanTrade
  /\ stagesRun[Len(stagesRun)] = "RISK_SIZING"

\* C4: a step that clears the active circuit breaker is ResetCircuitBreaker;
\* account updates, daily PnL updates, recorded trades and the stages of a
\* trading cycle leave it active.
C4_OnlyResetClearsBreaker ==
  [][(circuitBreakerActive /\ ~circuitBreakerActive') => ResetCircuitBreaker]_vars

\* The breaker is still active after a win was recorded, a positive daily PnL
\* was reported and a cycle has run
C4_Witness ==
  /\ circuitBreakerActive /\ consecutiveLosses = 0 /\ dailyPnL = 100
  /\ pc = "DONE" /\ totalExecutions = 1

\* C5 as claimed: a cycle that ran with the breaker tripped, and did not fail
\* on the account fetch, ended with the breaker rejection reason, without the
\* decision stage and without any oracle call.
C5_BreakerRejectsBeforeOracle ==
  (circuitBreakerActive /\ pc = "DONE" /\ ~result.err) =>
    /\ result.Message = "breaker"
    /\ ~InSeq("DECISION", stagesRun)
    /\ oracleCalls = 0

\* C8: the stages a cycle has run are an initial part of the fixed order
\* data, account, decision, risk sizing, parameters, validation, dispatch
\* (so each ran at most once, after its predecessor), a running cycle is at
\* the stage after the last one run, and nothing precedes the data stage.
C8_StagesInFixedOrder ==
  /\ Len(stagesRun) <= Len(StageOrder)
  /\ \A i \in 1..Len(stagesRun) : stagesRun[i] = StageOrder[i]
  /\ pc \notin { "idle", "DONE", "PANIC" } =>
       (Len(stagesRun) < Len(StageOrder) /\ pc = StageOrder[Len(stagesRun) + 1])
  /\ pc \in { "idle", "PANIC" } => stagesRun = << >>

\* A cycle has run all seven stages
C8_Witness ==
  pc = "DONE" /\ Len(stagesRun) = 7 /\ stagesRun[7] = "DISPATCH"

\* C6: with the circuit breaker enabled, a step UpdateDailyPnL(pnl) leaves the
\* breaker active when pnl < -(totalBalance * MaxDailyLossPercent / 100), and
\* leaves the breaker as it was when the loss is within that limit.
C6_DailyLossTripsBreaker ==
  [][\A pnl \in PnLValues :
       (UpdateDailyPnL(pnl) /\ config.CircuitBreakerEnabled) =>
         IF 100 * pnl < -(totalBalance * config.MaxDailyLossPercent)
         THEN circuitBreakerActive'
         ELSE circuitBreakerActive' = circuitBreakerActive]_vars

\* A loss of 6% of an equity of 10000 has tripped the breaker, no loss streak
\* being involved
C6_Witness ==
  /\ config.CircuitBreakerEnabled /\ circuitBreakerActive
  /\ totalBalance = 10000 /\ dailyPnL = -600 /\ lossesSinceWin = 0

\* C7 as claimed: the consecutive-loss counter equals the number of losses
\* recorded since the most recent win or reset, and the RecordTradeResult
\* call that brings it to MaxConsecutiveLosses activates the breaker.
C7_StreakTripsBreaker ==
  [][/\ consecutiveLosses' = lossesSinceWin'
     /\ \A isWin \in BOOLEAN :
          (RecordTradeResult(isWin)
             /\ consecutiveLosses' = config.MaxConsecutiveLosses) =>
            circuitBreakerActive']_vars

\* C7, amended: the consecutive-loss counter equals the number of losses
\* recorded since the most recent win or reset, and with the circuit breaker
\* enabled the RecordTradeResult call that brings it to MaxConsecutiveLosses
\* activates the breaker.
C7_StreakTripsEnabledBreaker ==
  [][/\ consecutiveLosses' = lossesSinceWin'
     /\ \A isWin \in BOOLEAN :
          (RecordTradeResult(isWin) /\ config.CircuitBreakerEnabled
             /\ consecutiveLosses' = config.MaxConsecutiveLosses) =>
            circuitBreakerActive']_vars

\* The third loss in a row has tripped the enabled breaker, the daily PnL
\* being positive
C7_Witness ==
  /\ config.CircuitBreakerEnabled /\ circuitBreakerActive
  /\ consecutiveLosses = config.MaxConsecutiveLosses /\ dailyPnL = 100

\* Time since the last decision and the hourly counter as a MakeDecision
\* call at the current time finds them
Elapsed == IF lastDecisionTime = ZeroTime THEN MaxDuration ELSE now - lastDecisionTime
CountThisHour == IF Elapsed > HourMinutes THEN 0 ELSE decisionsThisHour

\* The step is a direct MakeDecision call
IsMakeDecision ==
  \E data \in CleanedInputs : \E script \in DirectScripts : \E d \in { 0, 1 } :
     MakeDecisionDirect(data, script, d)

\* The call was refused: a wait decision with confidence 0, no oracle call,
\* the time of the last decision untouched
Refused ==
  /\ aiDecision'.Direction = "wait" /\ aiDecision'.Confidence = 0
  /\ oracleCalls' = 0
  /\ lastDecisionTime' = lastDecisionTime

\* C9 as claimed: MakeDecision refuses whenever decisionsThisHour >=
\* MaxDecisionsPerHour or the time since the last decision is shorter than
\* the cooldown.
C9_RefusesAtLimit ==
  [][(IsMakeDecision
        /\ (decisionsThisHour >= config.MaxDecisionsPerHour
            \/ Elapsed < config.CooldownMinutes)) => Refused]_vars

\* C9, amended: MakeDecision refuses whenever decisionsThisHour, taken as 0
\* when more than an hour has passed since the last decision, is >=
\* MaxDecisionsPerHour, or the time since the last decision is shorter than
\* the cooldown.
C9_RefusesAtLimitAfterHourlyReset ==
  [][(IsMakeDecision
        /\ (CountThisHour >= config.MaxDecisionsPerHour
            \/ Elapsed < config.CooldownMinutes)) => Refused]_vars

\* A call has been refused inside the cooldown, below the hourly limit
C9_Witness ==
  /\ ~aiDecision.nil /\ aiDecision.ConditionReason = "rate limit"
  /\ oracleCalls = 0
  /\ decisionsThisHour < config.MaxDecisionsPerHour
  /\ lastDecisionTime # ZeroTime
  /\ now - lastDecisionTime < config.CooldownMinutes

\* C10 as claimed: a MakeDecision call that is not refused increments
\* decisionsThisHour by exactly one and sets lastDecisionTime to the current
\* time.
C10_CountsEveryDecision ==
  [][(IsMakeDecision /\ oracleCalls' > 0) =>
       /\ decisionsThisHour' = decisionsThisHour + 1
       /\ lastDecisionTime' = now']_vars

\* C10, amended: a MakeDecision call that is not refused sets decisionsThisHour
\* to one more than its value taken as 0 when more than an hour has passed
\* since the last decision, and sets lastDecisionTime to the current time.
C10_CountsEveryDecisionAfterHourlyReset ==
  [][(IsMakeDecision /\ oracleCalls' > 0) =>
       /\ decisionsThisHour' = CountThisHour + 1
       /\ lastDecisionTime' = now']_vars

\* A call that consulted the oracle and ended in wait through the confidence
\* gate has been counted as the second decision of the hour
C10_Witness ==
  /\ ~aiDecision.nil /\ aiDecision.Direction = "wait" /\ aiDecision.Confidence > 0
  /\ oracleCalls = 3
  /\ decisionsThisHour = 2 /\ lastDecisionTime = now /\ now > 0

\* The oracle failed at one of the three prompts of the script
OracleFailed(script) == \E i \in 1..3 : script[i].kind = "error"

\* C11: MakeDecision never returns an error caused by the oracle: when the
\* oracle fails at the condition, opportunity or direction prompt, the
\* rule-based fallback supplies that stage's result, a decision is returned,
\* and the cycle goes on (to risk sizing, or to a successful "wait" end).
C11_OracleFailureNeverAborts ==
  [][ \A script \in AnswerScripts :
        ( StageDecision(script, 0) /\ oracleCalls' > oracleCalls /\ OracleFailed(script) )
        => /\ ~aiDecision'.nil
           /\ ~result'.err
           /\ pc' \in { "RISK_SIZING", "DONE" }
           /\ pc' = "DONE" => result'.Success
           /\ script[1].kind = "error"
                => aiDecision'.MarketCondition
                     = AnalyzeMarketConditionWithTechnicals(cleanedData)
           /\ script[2].kind = "error"
                => aiDecision'.Opportunity
                     = DetectOpportunityWithTechnicals(aiDecision'.MarketCondition,
                                                       cleanedData)
           /\ script[3].kind = "error"
                => LET d == makeRuleBasedDecision(aiDecision'.Opportunity, cleanedData)
                   IN  /\ aiDecision'.Confidence = d.confidence
                       /\ aiDecision'.Direction \in { d.direction, "wait" } ]_vars

\* A cycle whose oracle failed is past the decision stage with a fallback
\* decision to trade
C11_Witness ==
  /\ pc = "RISK_SIZING"
  /\ oracleCalls = 3
  /\ aiDecision.ConditionReason = "technicals"
  /\ aiDecision.Direction \in { "long", "short" }

\* The oracle answered JSON with a tag outside the closed set
InvalidCondition(resp) == resp.kind = "json" /\ ~isValidMarketCondition(resp.tag)
InvalidOpportunity(resp) == resp.kind = "json" /\ ~isValidOpportunity(resp.tag)

\* C12: when the oracle answers with a market condition or an opportunity
\* outside the closed set, the stage's result is the one the rule-based
\* fallback produces, exactly as on oracle failure.
C12_InvalidTagFallsBack ==
  [][ \A script \in AnswerScripts :
        ( StageDecision(script, 0) /\ oracleCalls' > oracleCalls )
        => /\ InvalidCondition(script[1])
                => aiDecision'.MarketCondition
                     = AnalyzeMarketConditionWithTechnicals(cleanedData)
           /\ InvalidOpportunity(script[2])
                => aiDecision'.Opportunity
                     = DetectOpportunityWithTechnicals(aiDecision'.MarketCondition,
                                                       cleanedData) ]_vars

\* The confidence floor of a decision to trade (0.7)
ConfidenceFloor == 7000

\* C13: every AIDecision with direction long or short has confidence >= 0.7
\* and confidence >= minConfidence, whether the oracle's JSON, the text
\* parser or the rule fallback produced it.
C13_TradeDecisionsAreConfident ==
  ( ~aiDecision.nil /\ aiDecision.Direction \in { "long", "short" } )
  => /\ aiDecision.Confidence >= ConfidenceFloor
     /\ aiDecision.Confidence >= config.MinConfidence

\* With minConfidence below 0.7, an oracle answer of 0.65 ends as a short
\* decision at the floor
C13_Witness ==
  /\ ~aiDecision.nil
  /\ config.MinConfidence < ConfidenceFloor
  /\ aiDecision.Direction = "short"
  /\ aiDecision.Confidence = ConfidenceFloor

\* C14: a cycle whose decision is wait ends at the decision stage with
\* success=true, no execution plan and no order, and no step of it changes
\* successfulTrades, failedTrades or rejectedByRisk (those are written only
\* by the risk-sizing, validation and dispatch stages, which it never runs).
C14_WaitCycleEndsQuietly ==
  [][ /\ ( pc = "DECISION" /\ pc' # "DECISION"
            /\ ~aiDecision'.nil /\ aiDecision'.Direction = "wait" )
          => /\ pc' = "DONE"
             /\ result'.Success /\ ~result'.err
             /\ executionPlan'.nil /\ orderResult'.nil
             /\ orderCalls' = << >>
             /\ stagesRun' = << "DATA", "ACCOUNT", "DECISION" >>
      /\ pc \notin { "RISK_SIZING", "VALIDATION", "DISPATCH" }
          => UNCHANGED << successfulTrades, failedTrades, rejectedByRisk >> ]_vars

\* A second cycle ended in wait after a first one traded
C14_Witness ==
  /\ pc = "DONE"
  /\ ~aiDecision.nil /\ aiDecision.Direction = "wait"
  /\ result.Success /\ result.Message = "wait"
  /\ totalExecutions = 2 /\ successfulTrades = 1

\* The end of a softly rejected cycle: success, no error, the reason as the
\* message, one more rejection counted and no trade counted
SoftRejection(reason) ==
  /\ pc' = "DONE"
  /\ result'.Success /\ ~result'.err /\ result'.Error = ""
  /\ reason # "" /\ result'.Message = reason
  /\ rejectedByRisk' = rejectedByRisk + 1
  /\ UNCHANGED << successfulTrades, failedTrades >>
  /\ orderCalls' = << >>

\* C15: every soft rejection (risk metrics with canTrade=false, or a
\* RiskValidator failure) ends the cycle with success=true and no error, a
\* message carrying the reason, and rejectedByRisk incremented by exactly one.
C15_SoftRejectionsSucceed ==
  [][ /\ ( pc = "RISK_SIZING" /\ pc' # pc
            /\ ~riskMetrics'.nil /\ ~riskMetrics'.CanTrade )
          => SoftRejection(riskMetrics'.RiskReason)
      /\ ( pc = "VALIDATION" /\ pc' # pc
            /\ ~executionPlan'.nil /\ ~executionPlan'.RiskCheckPassed )
          => SoftRejection(executionPlan'.RiskCheckReason)
      /\ ( pc \in { "RISK_SIZING", "VALIDATION" } /\ pc' \notin { pc, "DONE" } )
          => UNCHANGED rejectedByRisk ]_vars

\* One cycle was rejected by the risk metrics and another by the validator
C15_Witness ==
  /\ pc = "DONE"
  /\ ~result.nil /\ result.Success
  /\ rejectedByRisk = 2 /\ failedValidations = 1

\* The reasons with which the validator rejects for data quality
DataQualityReasons == { "market data quality not acceptable", "data quality too low" }

\* C16: when the cleaned data's quality is below the configured threshold,
\* the cycle ends as a data-quality rejection and rejectedByRisk is
\* incremented.  (Stated for the cycles that end without a returned error.)
C16_LowQualityIsRejected ==
  [][ ( pc # "DONE" /\ pc' = "DONE" /\ ~result'.err
        /\ ~cleanedData'.nil /\ cleanedData'.DataQuality < config.MinDataQuality )
      => /\ result'.Message \in DataQualityReasons
         /\ rejectedByRisk' = rejectedByRisk + 1 ]_vars

\* No exchange operation occurs twice among the calls
NoCallRepeated(calls) ==
  \A i, j \in 1..Len(calls) : i # j => calls[i].op # calls[j].op

\* C17: when the exchange fails during a live dispatch (setting the leverage
\* or opening the position), the cycle result has success=false, the
\* exchange error is returned to the caller, failedTrades is incremented by
\* one, and no exchange call is made twice in that cycle: the failed call is
\* the last one.
C17_ExchangeFailureFailsCycle ==
  [][ \A ex \in ExchangeOutcomes :
        ( StageDispatch(ex) /\ ~config.DryRun /\ (~ex.setLeverage \/ ~ex.open) )
        => /\ pc' = "DONE"
           /\ ~result'.Success /\ result'.err /\ result'.Error # ""
           /\ failedTrades' = failedTrades + 1
           /\ UNCHANGED << successfulTrades, rejectedByRisk >>
           /\ NoCallRepeated(orderCalls')
           /\ Len(orderCalls') = IF ex.setLeverage THEN 2 ELSE 1 ]_vars

\* A live cycle ended with the error of a failed open
C17_Witness ==
  /\ pc = "DONE"
  /\ ~config.DryRun
  /\ ~result.nil /\ result.err /\ ~result.Success
  /\ failedTrades = 1
  /\ Len(orderCalls) = 2
  /\ orderCalls[2].op \in { "OpenLong", "OpenShort" }

\* The cycle's input is nil or carries no symbol
InvalidInput == rawMarketData.nil \/ rawMarketData.Symbol = ""

\* C18: an invalid input to a cycle (nil market data, or market data with a
\* missing symbol) aborts the cycle with an explicit error returned to the
\* caller: once such a cycle is over, it has returned an error.
C18_InvalidInputAborts ==
  ( pc \in { "DONE", "PANIC" } /\ InvalidInput )
  => ( pc = "DONE" /\ ~result.nil /\ result.err /\ ~result.Success )

OpenOps == { "OpenLong", "OpenShort" }

\* The calls of one open order, given the exchange's answers and the order's
\* stop-loss and take-profit prices: every open follows a SetLeverage and
\* is absent when SetLeverage failed; every SetStopLoss / SetTakeProfit
\* follows an open, is absent when the open failed, and is absent when its
\* price is zero
OpenCallsInOrder(calls, ex, stopLoss, takeProfit) ==
  LET at(ops) == { i \in 1..Len(calls) : calls[i].op \in ops }
  IN  /\ \A i \in at(OpenOps) : \E j \in at({ "SetLeverage" }) : j < i
      /\ \A i \in at({ "SetStopLoss", "SetTakeProfit" }) : \E j \in at(OpenOps) : j < i
      /\ ~ex.setLeverage => at(OpenOps) = { }
      /\ ~ex.open => at({ "SetStopLoss", "SetTakeProfit" }) = { }
      /\ stopLoss = 0 => at({ "SetStopLoss" }) = { }
      /\ takeProfit = 0 => at({ "SetTakeProfit" }) = { }

\* C19: for a live open order the exchange calls occur in the order
\* setLeverage, open, setStopLoss/setTakeProfit: open is never called unless
\* setLeverage succeeded, and stop-loss/take-profit are set only after a
\* successful open and only when their price is non-zero.  Checked for
\* ExecuteOrder on open plans and for ExecuteOpenLong / ExecuteOpenShort.
C19_OpenCallsInOrder ==
  [][ \A ex \in ExchangeOutcomes :
        /\ \A plan \in OpenPlans :
             ExecuteOrderDirect(plan, ex)
             => OpenCallsInOrder(orderCalls', ex, plan.StopLoss, plan.TakeProfit)
        /\ \A params \in OpenParams : \A ok \in BOOLEAN :
             ( ExecuteOpenLongDirect(params, ok, ex)
               \/ ExecuteOpenShortDirect(params, ok, ex) )
             => OpenCallsInOrder(orderCalls', ex, params.StopLoss,
                                 params.TakeProfit) ]_vars

\* The executor has sent all four calls of an open plan, in order
C19_Witness ==
  /\ pc = "idle"
  /\ ~executionPlan.nil
  /\ Len(orderCalls) = 4
  /\ orderCalls[1].op = "SetLeverage"
  /\ orderCalls[2].op \in OpenOps
  /\ orderCalls[3].op = "SetStopLoss"
  /\ orderCalls[4].op = "SetTakeProfit"

\* C20: a failure to set the stop-loss or take-profit after a successful
\* open never changes the outcome: the order result stays successful, with
\* the order id and filled quantity of the open, and the cycle ends
\* successful and is counted in successfulTrades, not in failedTrades.
C20_StopFailureKeepsSuccess ==
  [][ \A ex \in ExchangeOutcomes :
        ( StageDispatch(ex) /\ ~config.DryRun /\ ex.setLeverage /\ ex.open
          /\ (~ex.setStopLoss \/ ~ex.setTakeProfit) )
        => /\ pc' = "DONE"
           /\ ~orderResult'.nil /\ orderResult'.Success
           /\ orderResult'.OrderID = "order"
           /\ orderResult'.FilledQuantity = executionPlan.Quantity
           /\ result'.Success /\ ~result'.err /\ result'.Message = "trade executed"
           /\ successfulTrades' = successfulTrades + 1
           /\ UNCHANGED << failedTrades, rejectedByRisk >> ]_vars

\* A live cycle traded although its stop-loss or take-profit was refused
C20_Witness ==
  /\ pc = "DONE"
  /\ ~config.DryRun
  /\ ~orderResult.nil /\ orderResult.Success /\ orderResult.ErrorMessage = "warning"
  /\ result.Success
  /\ successfulTrades = 1

\* C21: with dryRun=true, sending or batch-sending a plan (directly or at the
\* dispatch stage of a cycle) never invokes an order-changing exchange
\* operation, and every order result is the locally fabricated one.
C21_DryRunNeverReachesExchange ==
  config.DryRun
  => /\ orderCalls = << >>
     /\ ~orderResult.nil
          => ( orderResult.Success /\ orderResult.OrderID = "DRYRUN"
               /\ orderResult.ErrorMessage = "[DRY RUN]" )

\* A dry-run send has returned its fabricated result
C21_Witness ==
  /\ config.DryRun
  /\ pc = "idle"
  /\ ~executionPlan.nil /\ executionPlan.RiskCheckPassed
  /\ ~orderResult.nil /\ orderResult.OrderID = "DRYRUN"

\* The plan of the first of the identical cycles, as it stands at the end of
\* the cycle on a fresh orchestrator at clock 0
FirstCyclePlan ==
  LET data     == ProcessMarketData(config, NormalData)
      fresh    == [ lastDecisionTime |-> ZeroTime, decisionsThisHour |-> 0 ]
      decision == MakeDecision(config, fresh, 0, 0, data,
                               TwinScript[1], TwinScript[2], TwinScript[3]).decision
      rc       == [ totalBalance         |-> TwinBalance.total,
                    availableBalance     |-> TwinBalance.available,
                    usedMargin           |-> TwinBalance.used_margin,
                    dailyPnL             |-> 0,
                    consecutiveLosses    |-> 0,
                    circuitBreakerActive |-> FALSE ]
      metrics  == CalculateRiskMetrics(config, rc, decision.Direction, data)
      plan     == PrepareExecutionPlan(decision,
                                       CalculateParameters(config, decision, metrics, data),
                                       TRUE, "preliminary check passed", 0)
      v        == ValidateExecution(plan, decision, metrics, data)
  IN  [ plan EXCEPT !.RiskCheckPassed = v[1], !.RiskCheckReason = v[2] ]

\* C22: running two identical cycles with dryRun=true yields identical
\* execution plans, byte for byte: every finished cycle has the plan of the
\* first one.
C22_IdenticalCyclesIdenticalPlans ==
  ( config.DryRun /\ pc = "DONE" )
  => ( ~executionPlan.nil /\ executionPlan = FirstCyclePlan )

RECURSIVE GCD(_, _)
GCD(a, b) == IF b = 0 THEN a ELSE GCD(b, a % b)

\* Equality of two exact fractions (denominators positive, numerators >= 0),
\* by their lowest terms
FracEq(p, q) ==
  LET gp == GCD(p.n, p.d)
      gq == GCD(q.n, q.d)
  IN  /\ p.n \div gp = q.n \div gq
      /\ p.d \div gp = q.d \div gq

\* C23: in every cycle that reaches parameter calculation, the parameters
\* placed in the execution plan are AdjustParametersForRisk applied to the
\* computed parameters for the metrics' risk level (extreme: action wait;
\* high: quantity halved, leverage decremented; medium: quantity x 0.8; low:
\* unchanged).
C23_PlanCarriesAdjustedParameters ==
  pc = "VALIDATION"
  => LET p == AdjustParametersForRisk(
                CalculateParameters(config, aiDecision, riskMetrics, cleanedData),
                riskMetrics.RiskLevel)
     IN  /\ executionPlan.Action = p.action
         /\ FracEq(executionPlan.Quantity, p.quantity)
         /\ FracEq(executionPlan.QuantityUSD, p.quantity_usd)
         /\ executionPlan.Leverage = p.leverage

\* The plan of the last ValidateExecution call that cleared the validator
ClearedPlan(action) ==
  /\ pc = "idle" /\ ~result.nil /\ result.Success
  /\ ~executionPlan.nil /\ ~cleanedData.nil
  /\ executionPlan.Action = action

C30_ClosePlanCanClear ==
  ( /\ pc = "idle" /\ ~result.nil
    /\ ~executionPlan.nil /\ ~riskMetrics.nil /\ ~cleanedData.nil
    /\ executionPlan.Action \in { "close_long", "close_short" }
    /\ validateBasicParameters(executionPlan)[1]
    /\ validateRiskMetrics(executionPlan, riskMetrics)[1]
    /\ validateMarketData(cleanedData)[1] )
  => \E decision \in ValidatorInputs.decisions :
       ValidateExecution(executionPlan, decision, riskMetrics, cleanedData)[1]

\* No thread is inside a mutator
NoCallInFlight == \A t \in Threads : inFlight[t].pc = "idle"

\* C25: when the mutators are called from several threads, the
\* read-then-modify operations on the risk state are atomic with respect to
\* other updates: once the concurrent RecordTradeResult and UpdateDailyPnL
\* calls have returned, no update is lost (the streak counts every recorded
\* loss) and the streak is not at or above the threshold with the breaker
\* inactive.
C25_ConcurrentMutatorsLoseNoUpdate ==
  NoCallInFlight
  => /\ consecutiveLosses = lossesSinceWin
     /\ ( config.CircuitBreakerEnabled
          /\ lossesSinceWin >= config.MaxConsecutiveLosses )
        => circuitBreakerActive

\* The running cycle holds risk metrics whose leverage was computed (the
\* calculation went past the breaker and balance refusals)
LeverageComputed ==
  /\ ~riskMetrics.nil
  /\ riskMetrics.RiskReason \notin { "breaker", "insufficient balance" }

\* C26: the recommended leverage returned by RiskCalculator lies in
\* [1, maxLeverage] for every configuration and every market input.
C26_RecommendedLeverageInRange ==
  LeverageComputed
  => ( riskMetrics.RecommendedLeverage >= 1
       /\ riskMetrics.RecommendedLeverage <= config.MaxLeverage )

\* C29: in any one-hour window at most MaxDecisionsPerHour MakeDecision calls
\* pass the limiter, for every timing of the calls and every cooldown: of any
\* MaxDecisionsPerHour + 1 passes in a row, the last comes more than an hour
\* after the first.
C29_AtMostMaxDecisionsPerWindow ==
  Len(passLog) = config.MaxDecisionsPerHour + 1
  => passLog[Len(passLog)] - passLog[1] > HourMinutes

\* The limit was reached, an hour passed without a decision, and a call
\* passed the limiter again
C29_Witness ==
  /\ Len(passLog) = config.MaxDecisionsPerHour + 1
  /\ passLog[2] - passLog[1] < HourMinutes
  /\ decisionsThisHour = 1
  /\ lastDecisionTime >= passLog[3]

\* C27: the market snapshot handed to the core is never mutated: cleaning
\* leaves every field of the caller's input, its open-interest record
\* included, as it was handed over, and the stages of a cycle leave the
\* cycle's input unchanged.
C27_InputSnapshotNeverMutated ==
  [][ /\ \A data \in MarketSnapshots :
           CleanMarketDataDirect(data) => rawMarketData' = data
      /\ pc \notin { "idle", "DONE", "PANIC" } => rawMarketData' = rawMarketData ]_vars

\* The executor is halted and its resume time has not passed
InHalt == ruleExecutor.isTradingHalted /\ now < ruleExecutor.canResumeAt

\* The step is a CheckTradingRules call (at the equity it records)
IsCheckTradingRules == \E e \in { ruleExecutor'.accountEquity } : CheckTradingRules(e)

\* The equity of the check just made violates neither the daily-loss rule
\* nor the drawdown rule
NoRuleViolatedAfter ==
  LET re == ruleExecutor'
  IN  /\ (re.dailyStartEquity - re.accountEquity) * 100
           <= re.maxDailyLossPercent * re.dailyStartEquity
      /\ (re.historicalHighEquity - re.accountEquity) * 100
           <= re.maxDrawdownPercent * re.historicalHighEquity

\* C28: after RuleExecutor halts trading (by a daily-loss or drawdown
\* violation, or by ManualHaltTrading), CheckTradingRules reports trading
\* not allowed on every call until the resume time has passed or
\* ManualResumeTrading is called; after ManualResumeTrading the next check at
\* an equity that violates no rule allows trading again.
C28_HaltHoldsUntilResume ==
  [][ /\ ( IsCheckTradingRules /\ ~result'.IsTradingAllowed )
           => ( ruleExecutor'.isTradingHalted /\ now' < ruleExecutor'.canResumeAt )
      /\ ( \E duration \in { 0, 31 } : ManualHaltTrading(duration) )
           => ruleExecutor'.isTradingHalted
      /\ ( InHalt /\ ~ManualResumeTrading )
           => /\ ruleExecutor'.isTradingHalted
              /\ IsCheckTradingRules => ~result'.IsTradingAllowed
      /\ ManualResumeTrading => ~ruleExecutor'.isTradingHalted
      /\ ( IsCheckTradingRules /\ ~ruleExecutor.isTradingHalted /\ NoRuleViolatedAfter )
           => result'.IsTradingAllowed ]_vars

\* Trading was halted by a rule violation, resumed by hand before the
\* resume time, and the next check, at the opening equity, allowed trading
C28_Witness ==
  /\ ~result.nil /\ result.IsTradingAllowed
  /\ ~ruleExecutor.isTradingHalted
  /\ ruleExecutor.haltedAt # ZeroTime /\ now < ruleExecutor.canResumeAt
  /\ ruleExecutor.canResumeAt = ruleExecutor.haltedAt + ruleExecutor.coolingPeriodDuration
  /\ ruleExecutor.accountEquity = 10000

====
